---- MODULE Spec2Model ----
(***************************************************************************)
(* Model of the avocado three-layer calendar reconciliation engine:        *)
(* reconciler.apply_change (a pure function) and SyncEngine.run_once (one   *)
(* reconciliation pass against a CalDAV server, a planner and the state     *)
(* store).                                                                  *)
(***************************************************************************)
EXTENDS Integers, Sequences, FiniteSets, TLC

VARIABLES
    args,               \* arguments of the pure function under check
    result,             \* its result (NotCalled before the call)
    cal,                \* CalDAV server: calendar id -> set of resources
    meta,               \* state store, app_meta: last_planning_payload_fingerprint
    audit,              \* state store, audit_events (in order)
    runs,               \* state store, sync_runs (in order)
    pc,                 \* position of run_once
    trigger,            \* run_once argument
    should_replan,      \* run_once locals ...
    stage_map,
    user_map,
    all_events,
    mutable_events,
    baseline_etags,
    normalized_changes, \* planner changes not yet reconciled
    changes_applied,
    conflicts,
    mirrored,           \* number of working-set events the stage mirror has handled
    upserts,            \* history: <<calendar id, uid>> of this run's upsert calls
    planner_calls,      \* history: generate_changes calls of each run, in order
    edited,             \* history: uids the user rewrote on the server during this run
    raced,              \* history: edited uids that reached apply_change afterwards
    mutated,            \* history: actions of ingestion steps that wrote or deleted
    faults,             \* CalDAV / planner errors injected so far
    response,           \* web_admin: the answer to the last undo / revise request
    running,            \* threads: what each thread is doing (run_once or not)
    manual_trigger_event, \* SyncScheduler._manual_trigger_event is set
    stop_event,         \* SyncScheduler._stop_event is set
    loop,               \* position of the scheduler's loop thread in _loop
    manual,             \* _loop local: what wait() returned
    stopping,           \* a stop() call is between its two set() calls
    requested,          \* history: a trigger_manual() call no manual run has started after
    config_file,        \* ConfigManager: the mapping stored in the configuration file
    lock,               \* ConfigManager._lock: the thread that holds it, or "free"
    updating            \* ConfigManager.update: each thread's position, payload and locals

fnVars == <<args, result>>
storeVars == <<meta, audit, runs>>
localVars == <<trigger, should_replan, stage_map, user_map, all_events, mutable_events,
               baseline_etags, normalized_changes, changes_applied, conflicts, mirrored>>
histVars == <<upserts, planner_calls, edited, raced, mutated, faults>>
webVars == <<response, running, manual_trigger_event>>
loopVars == <<stop_event, loop, manual, stopping, requested>>
configVars == <<config_file, lock, updating>>
vars == <<fnVars, cal, storeVars, pc, localVars, histVars, webVars, loopVars, configVars>>

(***************************************************************************)
(* Values.  A text field is a string; a datetime is an instant (a positive  *)
(* integer) or NoDate (None); an etag is the hash of a resource's data or   *)
(* the empty string (NoEtag).  A description is its free text plus the      *)
(* [AI Task] block embedded in it.  A change holds one slot per field: the  *)
(* key is absent, or it is present with the value None or with a value.     *)
(***************************************************************************)
NoDate == 0
ParseError == -1

Missing == [kind |-> "absent"]
Null == [kind |-> "none"]
Val(v) == [kind |-> "val", v |-> v]
Named(change, field) == change[field].kind # "absent"

NoEtag == [kind |-> "empty"]
Hash(data) == [kind |-> "sha1", of |-> data]

NoBlock == [kind |-> "none"]
Description(text, block) == [text |-> text, block |-> block]
EmptyDescription == Description("", NoBlock)

\* reconciler.py:9-10
ALLOWED_FIELDS == {"start", "end", "summary", "location", "description"}
DateFields == {"start", "end"}

\* models.parse_iso_datetime: "T1" and "T1Z" are two spellings of the same
\* instant (+00:00 and Z); None parses to None; anything else raises.
parse_iso_datetime(slot) ==
    IF slot.kind = "none" THEN NoDate
    ELSE CASE slot.v = "T1" -> 1
           [] slot.v = "T1Z" -> 1
           [] slot.v = "T2" -> 2
           [] slot.v = "T3" -> 3
           [] OTHER -> ParseError

\* str(new_value) if new_value is not None else ""   (reconciler.py:79-80)
value_text(field, slot) ==
    IF slot.kind = "none"
    THEN (IF field = "description" THEN EmptyDescription ELSE "")
    ELSE slot.v

ReconcileOutcome(applied, conflicted, reason, event, blocked_fields) ==
    [applied |-> applied, conflicted |-> conflicted, reason |-> reason,
     event |-> event, blocked_fields |-> blocked_fields]

\* reconciler.py:64: {str(f).strip() for f in editable_fields or APPLY_FIELD_ORDER
\*                    if str(f).strip()}; " " stands for a blank field name.
\* mutant: the list is ignored and every allowed field is editable
editable_set_all(editable_fields) == ALLOWED_FIELDS

editable_set_of(editable_fields) ==
    {f \in (IF editable_fields = {} THEN ALLOWED_FIELDS ELSE editable_fields) : f # " "}

\* applied_value moving a date by one step each time instead of setting it
applied_value_shifted(current_event, change, field) ==
    IF field \in DateFields THEN current_event[field] + 1
    ELSE value_text(field, change[field])

\* the value a permitted, named field takes (reconciler.py:73-83)
applied_value(current_event, change, field) ==
    IF field \in DateFields
    THEN IF parse_iso_datetime(change[field]) # NoDate
         THEN parse_iso_datetime(change[field])
         ELSE current_event[field]
    ELSE value_text(field, change[field])

\* mutant: the mandatory flag is not consulted
locked_only(current_event) == current_event.locked

\* reconciler.py:29
locked_or_mandatory(current_event) == current_event.locked \/ current_event.mandatory

\* mutant: the version check is dropped
etag_conflict_never(current_event, baseline_etag) == FALSE

\* reconciler.py:38
etag_conflict(current_event, baseline_etag) ==
    /\ baseline_etag # NoEtag
    /\ current_event.etag # NoEtag
    /\ baseline_etag # current_event.etag

apply_change(current_event, change, baseline_etag, editable_fields) ==
    IF locked_or_mandatory(current_event)
    THEN ReconcileOutcome(FALSE, TRUE, "event_locked_or_mandatory", current_event, {})
    ELSE IF etag_conflict(current_event, baseline_etag)
    THEN ReconcileOutcome(FALSE, TRUE, "user_modified_after_planning", current_event, {})
    ELSE IF \E f \in DateFields :
               Named(change, f) /\ parse_iso_datetime(change[f]) = ParseError
    THEN ReconcileOutcome(FALSE, TRUE, "invalid_datetime", current_event, {})
    ELSE
      LET applicable_fields == ALLOWED_FIELDS \cap editable_set_of(editable_fields)
          blocked_fields == {f \in ALLOWED_FIELDS \ applicable_fields : Named(change, f)}
          updated == [k \in DOMAIN current_event |->
                        IF k \in applicable_fields /\ Named(change, k)
                        THEN applied_value(current_event, change, k)
                        ELSE current_event[k]]
          applied_any == updated # current_event
      IN ReconcileOutcome(applied_any, FALSE,
                          IF applied_any THEN "applied" ELSE "no_changes",
                          updated, blocked_fields)

(***************************************************************************)
(* UID codec (sync_engine.py:35-63).  A UID is the sequence of its          *)
(* ":"-separated segments; a calendar's prefix is the first ten hex digits  *)
(* of the SHA-1 of its id.                                                 *)
(***************************************************************************)
STAGE == "cal-stage"
USER == "cal-user"
INTAKE == "cal-intake"
SOURCE == "cal-source"
FIXED == "cal-fixed"
\* a second calendar that carries the user calendar's name
DUP == "cal-dup"

CalendarIds == {STAGE, USER, INTAKE, SOURCE, FIXED, DUP}

\* hashlib.sha1(calendar_id).hexdigest()[:10]
sha1_prefix(calendar_id) ==
    CASE calendar_id = INTAKE -> "76044593b8"
      [] calendar_id = SOURCE -> "e426ae0ed4"
      [] calendar_id = USER -> "0b1c2d3e4f"
      [] calendar_id = STAGE -> "5a6b7c8d9e"
      [] calendar_id = FIXED -> "f0e1d2c3b4"
      [] OTHER -> "0000000000"

\* re.fullmatch(r"[0-9a-f]{10}", segment)
IsHex10(segment) ==
    segment \in {"76044593b8", "e426ae0ed4", "0b1c2d3e4f", "5a6b7c8d9e",
                 "f0e1d2c3b4", "0000000000", "aaaaaaaaaa"}

\* _staging_uid adding no prefix
staging_uid_plain(calendar_id, uid) == uid

staging_uid(calendar_id, uid) == <<sha1_prefix(calendar_id)>> \o uid

RECURSIVE LeadingHex(_)
LeadingHex(segments) ==
    IF segments = <<>> \/ ~IsHex10(Head(segments)) THEN 0
    ELSE 1 + LeadingHex(Tail(segments))

managed_uid_prefix_depth(uid) ==
    IF uid = <<"">> THEN 0 ELSE LeadingHex(SubSeq(uid, 1, Len(uid) - 1))

collapse_nested_managed_uid_kept(uid) == uid

\* _collapse_nested_managed_uid dropping every managed prefix
collapse_nested_managed_uid_bare(uid) ==
    SubSeq(uid, managed_uid_prefix_depth(uid) + 1, Len(uid))

collapse_nested_managed_uid(uid) ==
    IF managed_uid_prefix_depth(uid) <= 1 THEN uid
    ELSE SubSeq(uid, managed_uid_prefix_depth(uid), Len(uid))

(***************************************************************************)
(* Task block codec (task_block.py).  A block is absent, syntactically      *)
(* invalid, or a mapping; "canonical" tells whether the mapping already     *)
(* holds every key in the form _normalize_task writes.                      *)
(***************************************************************************)
\* models.py:8
DEFAULT_EDITABLE_FIELDS == ALLOWED_FIELDS

\* TaskDefaultsConfig (models.py:133-148), as loaded from the configuration
task_defaults == [locked |-> FALSE, mandatory |-> FALSE,
                  editable_fields |-> DEFAULT_EDITABLE_FIELDS]

Task(canonical, locked, mandatory, editable_fields, user_intent, category) ==
    [kind |-> "task", canonical |-> canonical, locked |-> locked,
     mandatory |-> mandatory, editable_fields |-> editable_fields,
     user_intent |-> user_intent, category |-> category]

InvalidBlock(user_intent) == [kind |-> "invalid", user_intent |-> user_intent]

\* task_block.py:20-36
build_default_task(defaults) ==
    Task(TRUE, defaults.locked, defaults.mandatory,
         IF defaults.editable_fields = {} THEN DEFAULT_EDITABLE_FIELDS
         ELSE defaults.editable_fields,
         "", "")

\* task_block.py:39-48: None when there is no block; yaml.safe_load raises on
\* a block that is not valid YAML.
YamlError == [kind |-> "raise"]
parse_ai_task_block(description) ==
    CASE description.block.kind = "none" -> NoBlock
      [] description.block.kind = "invalid" -> YamlError
      [] OTHER -> description.block

\* task_block.py:58-75; an absent or non-list editable_fields is {}
normalize_task(parsed, defaults) ==
    LET given == IF parsed.editable_fields = {} THEN defaults.editable_fields
                 ELSE parsed.editable_fields
        cleaned == {f \in given : f # " "}
    IN Task(TRUE, parsed.locked, parsed.mandatory,
            IF cleaned = {} THEN DEFAULT_EDITABLE_FIELDS ELSE cleaned,
            parsed.user_intent, parsed.category)

\* task_block.py:78-90
upsert_ai_task_block(description, task_payload) ==
    Description(description.text, task_payload)

\* task_block.py:93-104: <<new description, task, changed>>
ensured(description, parsed, normalized) ==
    <<upsert_ai_task_block(description, normalized), normalized,
      normalized # parsed \/ upsert_ai_task_block(description, normalized) # description>>

ensure_ai_task_block(description, defaults) ==
    IF parse_ai_task_block(description) = NoBlock
    THEN <<upsert_ai_task_block(description, build_default_task(defaults)),
           build_default_task(defaults), TRUE>>
    ELSE ensured(description, parse_ai_task_block(description),
                 normalize_task(parse_ai_task_block(description), defaults))

\* set_ai_task_user_intent / set_ai_task_category: imported by sync_engine.py:23-28
\* from task_block; they normalize the block, set one key and report whether
\* the description changed.
with_task(description, task) ==
    <<upsert_ai_task_block(description, task), task,
      upsert_ai_task_block(description, task) # description>>

set_ai_task_user_intent(description, defaults, intent) ==
    with_task(description,
              [ensure_ai_task_block(description, defaults)[2] EXCEPT !.user_intent = intent])

set_ai_task_category(description, defaults, category) ==
    with_task(description,
              [ensure_ai_task_block(description, defaults)[2] EXCEPT !.category = category])

(***************************************************************************)
(* CalDAV server and client (caldav_client.py).  A calendar is a set of     *)
(* resources; a resource is an href and the iCalendar data stored under it. *)
(***************************************************************************)
NoHref == <<>>
href_of(uid) == <<"/">> \o uid
copy_href_of(uid) == <<"/copy">> \o uid

Resource(href, uid, summary, description, location, start, end) ==
    [href |-> href, uid |-> uid, summary |-> summary, description |-> description,
     location |-> location, start |-> start, end |-> end]

\* str(...).strip() of a text property (caldav_client.py:195-198)
strip(text) == IF text = "B " THEN "B" ELSE text

\* caldav_client.py:19-20, 207: the etag is the hash of the raw data
data_hash(resource) ==
    Hash(<<resource.uid, resource.summary, resource.description,
           resource.location, resource.start, resource.end>>)

\* caldav_client.py:186-219
parse_resource(calendar_id, resource) ==
    [calendar_id |-> calendar_id,
     uid |-> resource.uid,
     summary |-> strip(resource.summary),
     description |-> [resource.description EXCEPT !.text = strip(@)],
     location |-> strip(resource.location),
     start |-> resource.start,
     end |-> IF resource.start # NoDate /\ resource.end = NoDate
             THEN resource.start + 1 ELSE resource.end,
     href |-> resource.href,
     etag |-> data_hash(resource),
     source |-> "user",
     mandatory |-> FALSE,
     locked |-> FALSE,
     original_calendar_id |-> "",
     original_uid |-> <<"">>]

\* caldav_client.py:221-236
build_ical(href, event) ==
    Resource(href, event.uid, event.summary, event.description, event.location,
             event.start, event.end)

\* caldav_client.py:286-305: the server's answer for a UID (any one of the
\* resources that carry it)
find_resource_by_uid(calendar, uid) ==
    IF uid = <<"">> \/ ~\E r \in calendar : r.uid = uid THEN {}
    ELSE {CHOOSE r \in calendar : r.uid = uid}

\* the resource an upsert of event overwrites: by href, else by UID
\* (caldav_client.py:243-260); {} when a new resource is created
upsert_target(calendar, event) ==
    IF event.href # NoHref /\ \E r \in calendar : r.href = event.href
    THEN {r \in calendar : r.href = event.href}
    ELSE find_resource_by_uid(calendar, event.uid)

upsert_resource(calendar, event) ==
    IF upsert_target(calendar, event) = {}
    THEN build_ical(href_of(event.uid), event)
    ELSE build_ical((CHOOSE r \in upsert_target(calendar, event) : TRUE).href, event)

\* caldav_client.py:238-284: the calendar after the write
upsert_calendar(calendar, event) ==
    (calendar \ upsert_target(calendar, event)) \cup {upsert_resource(calendar, event)}

\* ... and the EventRecord returned
upsert_event(calendar_id, calendar, event) ==
    [parse_resource(calendar_id, upsert_resource(calendar, event)) EXCEPT
        !.source = event.source,
        !.mandatory = event.mandatory,
        !.locked = event.locked,
        !.original_calendar_id = event.original_calendar_id,
        !.original_uid = event.original_uid]

\* caldav_client.py:307-324: the resource a delete removes ({} when none)
delete_target(calendar, uid, href) ==
    IF href # NoHref /\ \E r \in calendar : r.href = href
    THEN {r \in calendar : r.href = href}
    ELSE find_resource_by_uid(calendar, uid)

delete_event(calendar, uid, href) == calendar \ delete_target(calendar, uid, href)

\* caldav_client.py:170-184
fetch_events(calendar_id, calendar) ==
    {parse_resource(calendar_id, r) : r \in {x \in calendar : x.uid # <<"">>}}

\* caldav_client.py:326-332
get_event_by_uid(calendar_id, calendar, uid) ==
    {parse_resource(calendar_id, r) : r \in find_resource_by_uid(calendar, uid)}

(***************************************************************************)
(* SyncEngine.run_once (sync_engine.py:189-1131): helpers.  The run works   *)
(* on a context: the server's calendars, the audit log and the locals that  *)
(* the ingestion loops update.  Python dicts keep insertion order, so a     *)
(* dict of events is the sequence of its values (the key is the UID).       *)
(***************************************************************************)
RawUid == <<"abc">>
NewUid == <<"new">>
FixedUid == <<"fix">>
MainUid == staging_uid(INTAKE, NewUid)
SeedUid == staging_uid(SOURCE, RawUid)
StaleUid == staging_uid(INTAKE, <<"old">>)
NestedUid == <<"aaaaaaaaaa">> \o MainUid
EarlyUid == <<"0000000000">> \o MainUid
UnknownUid == <<"zzz">>
SystemAi == <<"ai">>
SystemSync == <<"sync">>

\* the UIDs above as the strings they stand for, in str order
UidOrder == <<EarlyUid, MainUid, StaleUid, NestedUid, RawUid, SeedUid, FixedUid, NewUid>>
uid_rank(uid) == CHOOSE i \in DOMAIN UidOrder : UidOrder[i] = uid
href_rank(href) == IF href = NoHref THEN 0 ELSE IF Head(href) = "/" THEN 1 ELSE 2
sort_key(event) == 3 * uid_rank(event.uid) + href_rank(event.href)

\* sorted(events, key=lambda item: (item.uid or "", item.href or ""))
RECURSIVE sorted_events(_)
sorted_events(events) ==
    IF events = {} THEN <<>>
    ELSE LET first == CHOOSE e \in events : \A o \in events : sort_key(e) <= sort_key(o)
         IN <<first>> \o sorted_events(events \ {first})

MapHas(map, uid) == \E i \in DOMAIN map : map[i].uid = uid
MapGet(map, uid) == map[CHOOSE i \in DOMAIN map : map[i].uid = uid]
MapPut(map, event) ==
    IF MapHas(map, event.uid)
    THEN [i \in DOMAIN map |-> IF map[i].uid = event.uid THEN event ELSE map[i]]
    ELSE Append(map, event)
MapPop(map, uid) == SelectSeq(map, LAMBDA e : e.uid # uid)

\* state_store.record_audit_event (state_store.py:144-165)
AuditEvent(calendar_id, uid, action, detail) ==
    [calendar_id |-> calendar_id, uid |-> uid, action |-> action, detail |-> detail]

\* state_store.record_sync_run (state_store.py:69-98)
SyncRun(run_trigger, status, applied_count, conflict_count) ==
    [trigger |-> run_trigger, status |-> status, changes_applied |-> applied_count,
     conflicts |-> conflict_count]

Ctx ==
    [cal |-> cal, audit |-> audit, should_replan |-> should_replan,
     stage_map |-> stage_map, user_map |-> user_map, all_events |-> all_events,
     mutable_events |-> mutable_events, baseline_etags |-> baseline_etags,
     changes_applied |-> changes_applied, conflicts |-> conflicts,
     upserts |-> upserts, mutated |-> mutated, raised |-> FALSE, fail |-> "none"]

\* the outcomes of a write the server may refuse: a duplicate-UID error
\* ("Duplicate entry", "Integrity constraint violation") or any other error
FaultKinds == {"duplicate", "other"}

record_audit_event(ctx, calendar_id, uid, action, detail) ==
    [ctx EXCEPT !.audit = Append(@, AuditEvent(calendar_id, uid, action, detail))]

delete_ok(ctx, calendar_id, uid, href) ==
    delete_target(ctx.cal[calendar_id], uid, href) # {}

DeleteDetail(ok) == IF ok THEN "delete_ok" ELSE "delete_failed"

\* caldav_service.delete_event followed by the audit event that reports it
delete_and_audit(ctx, calendar_id, uid, href, audit_calendar, audit_uid, action) ==
    LET ok == delete_ok(ctx, calendar_id, uid, href)
        after == [ctx EXCEPT !.cal[calendar_id] = delete_event(@, uid, href),
                             !.mutated = IF ok THEN @ \cup {action} ELSE @]
    IN record_audit_event(after, audit_calendar, audit_uid, action, DeleteDetail(ok))

\* caldav_service.upsert_event on the context's server
upsert_in(ctx, calendar_id, event) ==
    [ctx EXCEPT !.cal[calendar_id] = upsert_calendar(@, event),
                !.upserts = @ \cup {<<calendar_id, event.uid>>}]

force_replan(ctx) == [ctx EXCEPT !.should_replan = TRUE]
mutation(ctx, step) == [ctx EXCEPT !.mutated = @ \cup {step}]
raise(ctx) == [ctx EXCEPT !.raised = TRUE]

\* sync_engine.py:256-275: a listed calendar with a managed name that is not a
\* resolved managed calendar joins managed_calendar_ids
skip_managed_duplicate(ctx, calendar_id) ==
    IF ctx.cal[calendar_id] = {} THEN ctx
    ELSE record_audit_event(ctx, calendar_id, <<"calendar">>,
                            "skip_managed_duplicate_calendar", "")

\* sync_engine.py:331-350: every in-window event of a duplicate calendar is
\* deleted, whatever the calendar's id
RECURSIVE purge_duplicate_calendar(_, _, _)
purge_duplicate_calendar(events, ctx, action) ==
    IF events = <<>> THEN ctx
    ELSE purge_duplicate_calendar(
             Tail(events),
             force_replan(delete_and_audit(ctx, Head(events).calendar_id, Head(events).uid,
                                           Head(events).href, Head(events).calendar_id,
                                           Head(events).uid, action)),
             action)

\* sync_engine.py:396-431
RECURSIVE stage_hygiene(_, _)
stage_hygiene(events, ctx) ==
    IF events = <<>> THEN ctx
    ELSE LET stage_event == Head(events)
             purged(action) ==
                 force_replan(delete_and_audit(ctx, STAGE, stage_event.uid, stage_event.href,
                                               STAGE, stage_event.uid, action))
         IN IF managed_uid_prefix_depth(stage_event.uid) >= 2
            THEN stage_hygiene(Tail(events), purged("purge_nested_stage_uid"))
            ELSE IF MapHas(ctx.stage_map, stage_event.uid)
            THEN stage_hygiene(Tail(events), purged("dedupe_stage_uid"))
            ELSE stage_hygiene(Tail(events),
                               [ctx EXCEPT !.stage_map = Append(@, stage_event)])

with_uid_unsourced(event, calendar_id, uid, source, original_calendar_id, original_uid) ==
    [event EXCEPT !.calendar_id = calendar_id, !.uid = uid, !.href = NoHref]

\* EventRecord.with_updates for an event written under another UID
with_uid(event, calendar_id, uid, source, original_calendar_id, original_uid) ==
    [event EXCEPT !.calendar_id = calendar_id, !.uid = uid, !.href = NoHref,
                  !.source = source, !.original_calendar_id = original_calendar_id,
                  !.original_uid = original_uid]

spent(ctx) == [ctx EXCEPT !.fail = "none"]

\* sync_engine.py:433-525
RECURSIVE user_hygiene(_, _)
user_hygiene(events, ctx) ==
    IF events = <<>> THEN ctx
    ELSE
      LET user_event == Head(events)
          collapsed_uid == collapse_nested_managed_uid(user_event.uid)
          existing_collapsed ==
              IF MapHas(ctx.user_map, collapsed_uid) THEN {MapGet(ctx.user_map, collapsed_uid)}
              ELSE get_event_by_uid(USER, ctx.cal[USER], collapsed_uid)
          dropped(from, action) ==
              force_replan(delete_and_audit(from, USER, user_event.uid, user_event.href,
                                            USER, user_event.uid, action))
          migrated_user == with_uid(user_event, USER, collapsed_uid, "user",
                                    user_event.original_calendar_id, user_event.original_uid)
          written == upsert_in(ctx, USER, migrated_user)
          kept(from, event) ==
              IF MapHas(from.user_map, event.uid)
              THEN force_replan(delete_and_audit(from, USER, event.uid, event.href,
                                                 USER, event.uid, "dedupe_user_uid"))
              ELSE [from EXCEPT !.user_map = Append(@, event)]
      IN IF managed_uid_prefix_depth(user_event.uid) >= 2 /\ collapsed_uid # user_event.uid
         THEN IF existing_collapsed # {}
              THEN user_hygiene(Tail(events),
                       [dropped(ctx, "purge_nested_user_uid") EXCEPT
                           !.user_map = MapPut(@, CHOOSE e \in existing_collapsed : TRUE)])
              ELSE IF ctx.fail # "none"
              THEN user_hygiene(Tail(events),
                                dropped(spent(ctx), "purge_invalid_nested_user_uid"))
              ELSE user_hygiene(Tail(events),
                       kept(force_replan(mutation(
                                delete_and_audit(written, USER, user_event.uid, user_event.href,
                                                 USER, collapsed_uid, "collapse_nested_user_uid"),
                                "collapse_nested_user_uid")),
                            upsert_event(USER, ctx.cal[USER], migrated_user)))
         ELSE user_hygiene(Tail(events), kept(ctx, user_event))

\* sync_engine.py:527-621
RECURSIVE intake_import(_, _)
intake_import(events, ctx) ==
    IF events = <<>> \/ ctx.raised THEN ctx
    ELSE
      LET intake_event == Head(events)
          user_uid == staging_uid(INTAKE, intake_event.uid)
          imported_user == with_uid(intake_event, USER, user_uid, "user",
                                    INTAKE, intake_event.uid)
          removed(from, audit_calendar, audit_uid, action) ==
              delete_and_audit(from, INTAKE, intake_event.uid, intake_event.href,
                               audit_calendar, audit_uid, action)
          existing_by_uid == get_event_by_uid(USER, ctx.cal[USER], user_uid)
      IN IF managed_uid_prefix_depth(intake_event.uid) >= 1
         THEN intake_import(Tail(events),
                            removed(ctx, INTAKE, intake_event.uid, "purge_managed_intake_uid"))
         ELSE IF MapHas(ctx.user_map, user_uid)
         THEN intake_import(Tail(events),
                            removed(ctx, INTAKE, intake_event.uid,
                                    "intake_event_already_imported"))
         ELSE IF ctx.fail = "duplicate"
         THEN intake_import(Tail(events),
                  [removed(spent(ctx), USER, user_uid, "skip_intake_uid_conflict") EXCEPT
                      !.user_map = IF existing_by_uid = {} THEN @
                                   ELSE MapPut(@, CHOOSE e \in existing_by_uid : TRUE)])
         ELSE IF ctx.fail = "other"
         THEN raise(spent(ctx))
         ELSE intake_import(Tail(events),
                  [force_replan(mutation(
                       removed(upsert_in(ctx, USER, imported_user), INTAKE, intake_event.uid,
                               "import_intake_event_to_user_layer"),
                       "import_intake_event_to_user_layer")) EXCEPT
                      !.user_map = MapPut(@, upsert_event(USER, ctx.cal[USER], imported_user))])

\* str(...).strip() of a user_intent value
strip_intent(intent) == IF intent = " " THEN "" ELSE intent

\* sync_engine.py:93-108 (parse_ai_task_block has already succeeded on the
\* description when this is evaluated)
extract_user_intent(event) ==
    IF parse_ai_task_block(event.description).kind = "task"
    THEN strip_intent(parse_ai_task_block(event.description).user_intent)
    ELSE ""

\* sync_engine.py:66-70
event_fingerprint(event) ==
    Hash(<<event.summary, event.description, event.location, event.start, event.end>>)

unparsable(event) == parse_ai_task_block(event.description) = YamlError

\* TaskDefaultsConfig of an immutable calendar (sync_engine.py:634-639)
immutable_defaults == [task_defaults EXCEPT !.locked = TRUE, !.mandatory = TRUE]

\* the result done of ensure_ai_task_block taken over by the event in memory
\* (sync_engine.py:644-646, 666-668, 813-815)
with_task_block(event, done) ==
    [event EXCEPT !.description = done[1], !.locked = done[2].locked,
                  !.mandatory = done[2].mandatory]

\* ... and written back when the description changed (sync_engine.py:648-655,
\* 670-677, 816-825): <<context, event>>
normalized_write(ctx, calendar_id, normalized, layer) ==
    <<record_audit_event(
          mutation(upsert_in(ctx, calendar_id, normalized), "seed_or_normalize_ai_task"),
          calendar_id, normalized.uid, "seed_or_normalize_ai_task", layer),
      upsert_event(calendar_id, ctx.cal[calendar_id], normalized)>>

normalize_with(ctx, calendar_id, event, done, layer) ==
    IF done[3] THEN normalized_write(ctx, calendar_id, with_task_block(event, done), layer)
    ELSE <<ctx, with_task_block(event, done)>>

normalize_in_place(ctx, calendar_id, event, defaults, layer) ==
    normalize_with(ctx, calendar_id, event,
                   ensure_ai_task_block(event.description, defaults), layer)

\* sync_engine.py:791-793
appended(done) == [done[1] EXCEPT !.all_events = Append(@, done[2])]

\* sync_engine.py:633-655
immutable_step(event, ctx) ==
    IF unparsable(event) THEN raise(ctx)
    ELSE appended(normalize_in_place(ctx, FIXED, event, immutable_defaults, "immutable"))

\* sync_engine.py:775-789
propagated(ctx, updated) ==
    record_audit_event(
        [force_replan(mutation(upsert_in(ctx, USER, updated),
                               "propagate_user_intent_from_source")) EXCEPT
            !.user_map = MapPut(@, upsert_event(USER, ctx.cal[USER], updated))],
        USER, updated.uid, "propagate_user_intent_from_source", "")

\* sync_engine.py:765-774
propagate_with(ctx, seeded_user, source_intent, changed) ==
    IF source_intent # "" /\ source_intent # extract_user_intent(seeded_user) /\ changed[3]
    THEN propagated(ctx, [seeded_user EXCEPT !.description = changed[1]])
    ELSE ctx

propagate_intent(ctx, event, seeded_user) ==
    IF unparsable(seeded_user) THEN raise(ctx)
    ELSE propagate_with(ctx, seeded_user, extract_user_intent(event),
                        set_ai_task_user_intent(seeded_user.description, task_defaults,
                                                extract_user_intent(event)))

propagate_on(ctx, event, user_uid) ==
    propagate_intent(ctx, event, MapGet(ctx.user_map, user_uid))

\* sync_engine.py:692-738
migrate_legacy(ctx, legacy_user, migrated) ==
    [delete_and_audit(mutation(upsert_in(ctx, USER, migrated), "migrate_user_uid"),
                      USER, legacy_user.uid, legacy_user.href,
                      USER, migrated.uid, "migrate_user_uid") EXCEPT
        !.user_map = MapPop(MapPut(@, upsert_event(USER, ctx.cal[USER], migrated)),
                            legacy_user.uid)]

\* sync_engine.py:739-764
seed_user(ctx, seed) ==
    [force_replan(mutation(upsert_in(ctx, USER, seed), "seed_user_event")) EXCEPT
        !.user_map = MapPut(@, upsert_event(USER, ctx.cal[USER], seed))]

skip_seed(ctx, user_uid, detail) ==
    record_audit_event(spent(ctx), USER, user_uid, "skip_seed_uid_conflict", detail)

\* sync_engine.py:680-789
seed_or_migrate(ctx, event, user_uid) ==
    IF managed_uid_prefix_depth(event.uid) >= 2
    THEN record_audit_event(ctx, SOURCE, event.uid, "skip_nested_source_uid", "")
    ELSE IF MapHas(ctx.user_map, event.uid) /\ user_uid # event.uid
    THEN IF ctx.fail = "duplicate"
         THEN [skip_seed(ctx, user_uid, "duplicate_uid_on_migrate") EXCEPT
                  !.user_map = MapPop(@, event.uid)]
         ELSE IF ctx.fail = "other" THEN raise(spent(ctx))
         ELSE propagate_on(
                  migrate_legacy(ctx, MapGet(ctx.user_map, event.uid),
                                 with_uid(MapGet(ctx.user_map, event.uid), USER, user_uid,
                                          "user", SOURCE, event.uid)),
                  event, user_uid)
    ELSE IF MapHas(ctx.user_map, user_uid) THEN propagate_on(ctx, event, user_uid)
    ELSE IF ctx.fail = "duplicate" THEN skip_seed(ctx, user_uid, "duplicate_uid_on_seed")
    ELSE IF ctx.fail = "other" THEN raise(spent(ctx))
    ELSE propagate_on(seed_user(ctx, with_uid(event, USER, user_uid, "user",
                                              SOURCE, event.uid)),
                      event, user_uid)

editable_after(done) == seed_or_migrate(done[1], done[2], staging_uid(SOURCE, done[2].uid))

\* sync_engine.py:656-789
editable_step(source_event, ctx) ==
    IF unparsable(source_event) THEN raise(ctx)
    ELSE editable_after(normalize_in_place(ctx, SOURCE, source_event, task_defaults, "user"))

\* sync_engine.py:623-802: the calendars that are not managed, in list order
RECURSIVE source_scan(_, _)
source_scan(events, ctx) ==
    IF events = <<>> \/ ctx.raised THEN ctx
    ELSE source_scan(Tail(events),
                     IF Head(events).calendar_id = FIXED
                     THEN immutable_step(Head(events), ctx)
                     ELSE editable_step(Head(events), ctx))

\* sync_engine.py:827-834
working_set_put(ctx, stage_twins, user_event, changed) ==
    [ctx EXCEPT
        !.user_map = MapPut(@, user_event),
        !.should_replan =
            \/ @
            \/ changed
            \/ ~MapHas(stage_twins, user_event.uid)
            \/ event_fingerprint(MapGet(stage_twins, user_event.uid))
                   # event_fingerprint(user_event),
        !.mutable_events = MapPut(@, user_event),
        !.baseline_etags = (user_event.uid :> user_event.etag) @@ @,
        !.all_events = Append(@, user_event)]

working_set_add(done, stage_twins, changed) ==
    working_set_put(done[1], stage_twins, done[2], changed)

\* sync_engine.py:804-834
RECURSIVE user_layer(_, _)
user_layer(events, ctx) ==
    IF events = <<>> \/ ctx.raised THEN ctx
    ELSE IF unparsable(Head(events)) THEN raise(ctx)
    ELSE user_layer(Tail(events),
             working_set_add(
                 normalize_in_place(ctx, USER, Head(events), task_defaults, "user-layer"),
                 ctx.stage_map,
                 ensure_ai_task_block(Head(events).description, task_defaults)[3]))

\* sync_engine.py:836-840
stale_stage_uid(ctx) ==
    \E i \in DOMAIN ctx.stage_map : ~MapHas(ctx.user_map, ctx.stage_map[i].uid)

stale_checked(out) ==
    [out EXCEPT !.should_replan = @ \/ (~out.raised /\ stale_stage_uid(out))]

(***************************************************************************)
(* Planner gateway and change matching (sync_engine.py:842-934).            *)
(***************************************************************************)
NoMeta == [kind |-> "unset"]

\* _hash_text(json.dumps(build_planning_payload(events=all_events, ...))):
\* the payload holds every field of every event, in list order
payload_fingerprint(events) == Hash(events)

Change(calendar_id, uid, start, summary, location) ==
    [calendar_id |-> calendar_id, uid |-> uid, start |-> start, end |-> Missing,
     summary |-> summary, location |-> location, description |-> Missing]

\* planner.py:60-77: an entry without calendar_id or uid is dropped, a field
\* whose value is None is dropped
normalize_change(item) ==
    [k \in DOMAIN item |->
        IF k \in ALLOWED_FIELDS /\ item[k].kind = "none" THEN Missing ELSE item[k]]

normalize_changes(raw_changes) ==
    LET kept == SelectSeq(raw_changes,
                          LAMBDA item : item.calendar_id # "" /\ item.uid # <<"">>)
    IN [i \in DOMAIN kept |-> normalize_change(kept[i])]

\* match_event without the staging-UID rule and the UID-only rule
match_event_by_key(events, change) ==
    IF change.calendar_id = USER /\ MapHas(events, change.uid)
    THEN {MapGet(events, change.uid)}
    ELSE {}

\* sync_engine.py:904-912: by key, else by the namespaced UID, else by UID alone
match_event(events, change) ==
    IF change.calendar_id = USER /\ MapHas(events, change.uid)
    THEN {MapGet(events, change.uid)}
    ELSE IF MapHas(events, staging_uid(change.calendar_id, change.uid))
    THEN {MapGet(events, staging_uid(change.calendar_id, change.uid))}
    ELSE IF MapHas(events, change.uid) THEN {MapGet(events, change.uid)}
    ELSE {}

\* mutant: every matched event counts as requested
event_has_user_intent_always(event) == TRUE

\* sync_engine.py:73-90
event_has_user_intent(event) == extract_user_intent(event) # ""

\* sync_engine.py:111-119
extract_editable_fields(event, fallback_fields) ==
    LET parsed == parse_ai_task_block(event.description)
        cleaned == IF parsed.kind = "task" THEN {f \in parsed.editable_fields : f # " "}
                   ELSE {}
    IN IF cleaned # {} THEN cleaned ELSE {f \in fallback_fields : f # " "}

\* sync_engine.py:122-141: the keyword vocabulary, on the texts of the model
infer_category(event, change) ==
    IF (IF Named(change, "summary") THEN change.summary.v ELSE event.summary) = "gym"
    THEN "health" ELSE "general"

\* sync_engine.py:144-162: the fields that differ
event_patch(before, after) == {f \in ALLOWED_FIELDS : before[f] # after[f]}

(***************************************************************************)
(* Reconciler loop body (sync_engine.py:903-1031), for one planner change.  *)
(***************************************************************************)
baseline_of(etags, uid) == IF uid \in DOMAIN etags THEN etags[uid] ELSE NoEtag

\* mutable_events[key] = saved; baseline_etags[key] = saved.etag
remembered(ctx, saved) ==
    [ctx EXCEPT !.mutable_events = MapPut(@, saved),
                !.baseline_etags = (saved.uid :> saved.etag) @@ @]

\* sync_engine.py:981-989, 1006-1014: consumed is set_ai_task_user_intent(.., "")
consume_intent(ctx, without_intent, consumed) ==
    IF consumed[3]
    THEN remembered(upsert_in(ctx, USER, without_intent),
                    upsert_event(USER, ctx.cal[USER], without_intent))
    ELSE ctx

intent_kept(ctx, saved, consumed) == ctx

intent_consumed(ctx, saved, consumed) ==
    consume_intent(ctx, [saved EXCEPT !.description = consumed[1]], consumed)

\* sync_engine.py:1015-1031: the details of the apply_ai_change record, with
\* before_event = event.clone() (line 967) and after_event = saved_user_event
ApplyDetails(category, before_event, after_event) ==
    [category |-> category, before_event |-> before_event, after_event |-> after_event]

applied_audit(ctx, event, category) ==
    record_audit_event(ctx, USER, event.uid, "apply_ai_change",
                       ApplyDetails(category, event, MapGet(ctx.mutable_events, event.uid)))

\* sync_engine.py:977-1031
finish_change(ctx, event, saved, category) ==
    IF event_patch(event, saved) = {}
    THEN record_audit_event(
             intent_consumed(ctx, saved,
                             set_ai_task_user_intent(saved.description, task_defaults, "")),
             USER, event.uid, "ai_change_skipped_no_effect", "")
    ELSE applied_audit(
             [intent_consumed(remembered(ctx, saved), saved,
                              set_ai_task_user_intent(saved.description, task_defaults, ""))
                 EXCEPT !.changes_applied = @ + 1],
             event, category)

\* sync_engine.py:970-976: categorized is set_ai_task_category(.., category)
categorize(ctx, event, saved, with_category, category, categorized) ==
    IF categorized[3]
    THEN finish_change(upsert_in(ctx, USER, with_category), event,
                       upsert_event(USER, ctx.cal[USER], with_category), category)
    ELSE finish_change(ctx, event, saved, category)

categorize_with(ctx, event, saved, category, categorized) ==
    categorize(ctx, event, saved, [saved EXCEPT !.description = categorized[1]],
               category, categorized)

write_saved(ctx, event, saved, category) ==
    categorize_with(ctx, event, saved, category,
                    set_ai_task_category(saved.description, task_defaults, category))

saved_as(ctx, event, change, saved) ==
    write_saved(ctx, event, saved, infer_category(saved, change))

\* sync_engine.py:967-1031: the change was applied in memory; write it back
write_back(ctx, event, change, outcome) ==
    saved_as(upsert_in(ctx, USER, outcome.event), event, change,
             upsert_event(USER, ctx.cal[USER], outcome.event))

\* sync_engine.py:944-954
blocked_audit(ctx, event, outcome) ==
    IF outcome.blocked_fields # {}
    THEN record_audit_event(ctx, USER, event.uid, "ai_change_blocked_by_editable_fields", "")
    ELSE ctx

reconcile_outcome_uncounted(ctx, event, change, outcome) ==
    IF outcome.conflicted \/ ~outcome.applied THEN blocked_audit(ctx, event, outcome)
    ELSE write_back(blocked_audit(ctx, event, outcome), event, change, outcome)

\* sync_engine.py:944-968
reconcile_outcome(ctx, event, change, outcome) ==
    IF outcome.conflicted
    THEN record_audit_event([blocked_audit(ctx, event, outcome) EXCEPT !.conflicts = @ + 1],
                            USER, event.uid, "conflict", outcome.reason)
    ELSE IF ~outcome.applied THEN blocked_audit(ctx, event, outcome)
    ELSE write_back(blocked_audit(ctx, event, outcome), event, change, outcome)

\* sync_engine.py:927-943
reconcile_event(ctx, event, change) ==
    IF ~event_has_user_intent(event)
    THEN record_audit_event(ctx, USER, event.uid, "ai_change_skipped_no_intent", "")
    ELSE reconcile_outcome(ctx, event, change,
             apply_change(event, change, baseline_of(ctx.baseline_etags, event.uid),
                          extract_editable_fields(event, task_defaults.editable_fields)))

\* sync_engine.py:903-926
reconcile_change(ctx, change) ==
    IF match_event(ctx.mutable_events, change) = {}
    THEN record_audit_event(ctx, "system", SystemAi, "ai_change_unmatched", "")
    ELSE reconcile_event(ctx, CHOOSE e \in match_event(ctx.mutable_events, change) : TRUE,
                         change)

mirror_event_namespaced(source_event) ==
    with_uid(source_event, STAGE, staging_uid(source_event.calendar_id, source_event.uid),
             "staging", source_event.calendar_id, source_event.uid)

\* sync_engine.py:170-187, called with preserve_uid=True at line 1043
mirror_event(source_event) ==
    with_uid(source_event, STAGE, source_event.uid, "staging",
             source_event.calendar_id, source_event.uid)

(***************************************************************************)
(* run_once as a state machine.  One run is Start, the ingestion steps in   *)
(* program order, the fingerprint gate, the planner call, one Reconcile per *)
(* planner change, one Mirror per working-set event, and Finish; an         *)
(* exception at any step ends the run in the handler of lines 1103-1131.    *)
(* Assumed throughout: the three managed calendars exist under their        *)
(* configured ids, no other calendar carries a managed name, the planner is *)
(* configured, and no window override is passed.                            *)
(***************************************************************************)
MaxChanges == 1
MaxFaults == 1
MaxRuns == 2
MaxBatch == 2
MaxThreadRuns == 4

Triggers == {"manual", "startup", "scheduled"}
Faults == {"none"} \cup FaultKinds

NotCalled == [called |-> FALSE]
Returned(value) == [called |-> TRUE, value |-> value]

AtRest ==
    /\ trigger = "" /\ should_replan = FALSE
    /\ stage_map = <<>> /\ user_map = <<>> /\ all_events = <<>>
    /\ mutable_events = <<>> /\ baseline_etags = <<>> /\ normalized_changes = <<>>
    /\ changes_applied = 0 /\ conflicts = 0 /\ mirrored = 0
    /\ upserts = {} /\ edited = {} /\ raced = {} /\ mutated = {} /\ faults = 0

RunErrorUnrecorded(log) ==
    /\ runs' = runs
    /\ audit' = log
    /\ pc' = "done"

\* no web request has been answered; every thread is outside run_once
Threads == {"scheduler", "worker1", "worker2"}
NoResponse == [status |-> 0, request |-> "none", audit_id |-> 0]
\* scheduler.py:11-16: no loop thread, both events clear
NoLoop ==
    /\ stop_event = FALSE
    /\ loop = "none"
    /\ manual = FALSE
    /\ stopping = FALSE
    /\ requested = FALSE

(***************************************************************************)
(* The configuration file.  A mapping is a function from keys to values;    *)
(* of AppConfig the model keeps the sections sync (window_days,             *)
(* interval_seconds) and ai (timeout_seconds), whose values are integers.   *)
(* A payload names a subset of the sections and gives each a mapping over   *)
(* a subset of its keys, or null.                                           *)
(***************************************************************************)
Sections == {"sync", "ai"}
KeysOf(section) == IF section = "sync" THEN {"window_days", "interval_seconds"}
                   ELSE {"timeout_seconds"}

\* models.py:64-66 and 80-81: the dataclass defaults
DefaultOf(key) == IF key = "window_days" THEN 7
                  ELSE IF key = "interval_seconds" THEN 300
                  ELSE 90

\* models.py:73-75 and 87-89: the lower limits from_dict enforces
FloorOf(key) == IF key = "window_days" THEN 1
                ELSE IF key = "interval_seconds" THEN 30
                ELSE 0

Max(a, b) == IF a >= b THEN a ELSE b

\* models.py:68-76 and 83-91: SyncConfig.from_dict, AIConfig.from_dict (with
\* `data or {}`) followed by asdict
section_from_dict(section, data) ==
    [key \in KeysOf(section) |->
        IF data = Null \/ key \notin DOMAIN data THEN Max(FloorOf(key), DefaultOf(key))
        ELSE IF section = "sync" THEN Max(FloorOf(key), data[key])
        ELSE data[key]]

\* models.py:159-171: AppConfig.from_dict followed by to_dict
from_dict(data) ==
    [section \in Sections |->
        section_from_dict(section, IF section \in DOMAIN data THEN data[section] ELSE Null)]

\* config_manager.py:15-22 on the values of one section
merge_section(base, updates) ==
    [key \in DOMAIN base \cup DOMAIN updates |->
        IF key \in DOMAIN updates THEN updates[key] ELSE base[key]]

\* config_manager.py:15-22
deep_merge(base, updates) ==
    [key \in DOMAIN base \cup DOMAIN updates |->
        IF key \notin DOMAIN updates THEN base[key]
        ELSE IF updates[key] # Null /\ key \in DOMAIN base /\ base[key] # Null
        THEN merge_section(base[key], updates[key])
        ELSE updates[key]]

\* no thread is inside ConfigManager.update; the file holds the defaults that
\* _ensure_exists writes (config_manager.py:31-35)
NoPayload == <<>>
NoCurrent == <<>>
NoUpdate ==
    /\ config_file = from_dict(<<>>)
    /\ lock = "free"
    /\ updating = [t \in Threads |-> [at |-> "out", payload |-> NoPayload,
                                       current |-> NoCurrent]]

NoRequest ==
    /\ response = NoResponse
    /\ running = [t \in Threads |-> "no"]
    /\ manual_trigger_event = FALSE
    /\ NoLoop
    /\ NoUpdate

\* the handler of sync_engine.py:1103-1131
RunError(log) ==
    /\ runs' = Append(runs, SyncRun(trigger, "error", changes_applied, conflicts))
    /\ audit' = Append(log, AuditEvent("system", SystemSync, "run_error", ""))
    /\ pc' = "done"

\* the effects of an ingestion step that ended in context out
Commit(out, next, fault) ==
    /\ fault # "none" => faults < MaxFaults /\ out.fail = "none"
    /\ faults' = IF fault = "none" THEN faults ELSE faults + 1
    /\ cal' = out.cal
    /\ should_replan' = out.should_replan
    /\ stage_map' = out.stage_map
    /\ user_map' = out.user_map
    /\ all_events' = out.all_events
    /\ mutable_events' = out.mutable_events
    /\ baseline_etags' = out.baseline_etags
    /\ changes_applied' = out.changes_applied
    /\ conflicts' = out.conflicts
    /\ upserts' = out.upserts
    /\ mutated' = out.mutated
    /\ IF out.raised
       THEN /\ runs' = Append(runs, SyncRun(trigger, "error", out.changes_applied,
                                            out.conflicts))
            /\ audit' = Append(out.audit, AuditEvent("system", SystemSync, "run_error", ""))
            /\ pc' = "done"
       ELSE /\ runs' = runs
            /\ audit' = out.audit
            /\ pc' = next

\* sync_engine.py:196-311
Start(run_trigger, caldav_configured) ==
    /\ pc = "idle"
    /\ trigger' = run_trigger
    /\ IF caldav_configured
       THEN /\ should_replan' = (run_trigger \in {"manual", "startup"})
            /\ pc' = "duplicates"
            /\ runs' = runs
       ELSE /\ should_replan' = FALSE
            /\ pc' = "done"
            /\ runs' = Append(runs, SyncRun(run_trigger, "skipped", 0, 0))
    /\ stage_map' = <<>> /\ user_map' = <<>> /\ all_events' = <<>>
    /\ mutable_events' = <<>> /\ baseline_etags' = <<>> /\ normalized_changes' = <<>>
    /\ changes_applied' = 0 /\ conflicts' = 0 /\ mirrored' = 0
    /\ upserts' = {} /\ edited' = {} /\ raced' = {} /\ mutated' = {} /\ faults' = 0
    /\ planner_calls' = Append(planner_calls, 0)
    /\ UNCHANGED <<fnVars, configVars, loopVars, webVars, cal, meta, audit>>

\* list_calendars (sync_engine.py:222) or the fetch_events call that opens a
\* pass (lines 396, 433, 527, 627) raises: the handler ends the run
FetchFail ==
    /\ pc \in {"duplicates", "stage", "user", "intake", "sources"}
    /\ faults < MaxFaults
    /\ faults' = faults + 1
    /\ RunError(audit)
    /\ UNCHANGED <<fnVars, configVars, loopVars,
                   webVars, cal, meta, localVars, upserts, planner_calls, edited, raced,
                   mutated>>

\* sync_engine.py:256-275 and 313-394; the model lists one calendar, DUP, under
\* the user calendar's name when it holds events, and none under the stage's
\* or the intake's
Duplicates ==
    /\ pc = "duplicates"
    /\ Commit(purge_duplicate_calendar(sorted_events(fetch_events(DUP, cal[DUP])),
                                       skip_managed_duplicate(Ctx, DUP),
                                       "purge_duplicate_user_calendar_event"),
              "stage", "none")
    /\ UNCHANGED <<fnVars, configVars, loopVars,
                   webVars, meta, trigger, normalized_changes, mirrored, planner_calls,
                   edited, raced>>

StageHygiene ==
    /\ pc = "stage"
    /\ Commit(stage_hygiene(sorted_events(fetch_events(STAGE, cal[STAGE])), Ctx),
              "user", "none")
    /\ UNCHANGED <<fnVars, configVars, loopVars,
                   webVars, meta, trigger, normalized_changes, mirrored, planner_calls,
                   edited, raced>>

UserHygiene(fault) ==
    /\ pc = "user"
    /\ Commit(user_hygiene(sorted_events(fetch_events(USER, cal[USER])),
                           [Ctx EXCEPT !.fail = fault]),
              "intake", fault)
    /\ UNCHANGED <<fnVars, configVars, loopVars,
                   webVars, meta, trigger, normalized_changes, mirrored, planner_calls,
                   edited, raced>>

Intake(fault) ==
    /\ pc = "intake"
    /\ Commit(intake_import(sorted_events(fetch_events(INTAKE, cal[INTAKE])),
                            [Ctx EXCEPT !.fail = fault]),
              "sources", fault)
    /\ UNCHANGED <<fnVars, configVars, loopVars,
                   webVars, meta, trigger, normalized_changes, mirrored, planner_calls,
                   edited, raced>>

Sources(fault) ==
    /\ pc = "sources"
    /\ Commit(source_scan(sorted_events(fetch_events(FIXED, cal[FIXED]))
                            \o sorted_events(fetch_events(SOURCE, cal[SOURCE])),
                          [Ctx EXCEPT !.fail = fault]),
              "userlayer", fault)
    /\ UNCHANGED <<fnVars, configVars, loopVars,
                   webVars, meta, trigger, normalized_changes, mirrored, planner_calls,
                   edited, raced>>

UserLayer ==
    /\ pc = "userlayer"
    /\ Commit(stale_checked(user_layer(user_map, Ctx)), "gate", "none")
    /\ UNCHANGED <<fnVars, configVars, loopVars,
                   webVars, meta, trigger, normalized_changes, mirrored, planner_calls,
                   edited, raced>>

same_payload_never(fingerprint, last_fingerprint) == FALSE

\* sync_engine.py:857
same_payload(fingerprint, last_fingerprint) == fingerprint = last_fingerprint

\* sync_engine.py:842-867
Gate ==
    /\ pc = "gate"
    /\ IF should_replan /\ trigger = "scheduled"
       THEN IF same_payload(payload_fingerprint(all_events), meta)
            THEN /\ audit' = Append(audit, AuditEvent("system", SystemAi,
                                                      "skip_ai_same_payload", ""))
                 /\ should_replan' = FALSE
                 /\ meta' = meta
                 /\ pc' = "mirror"
            ELSE /\ meta' = payload_fingerprint(all_events)
                 /\ pc' = "plan"
                 /\ UNCHANGED <<audit, should_replan>>
       ELSE /\ pc' = IF should_replan THEN "plan" ELSE "mirror"
            /\ UNCHANGED <<audit, should_replan, meta>>
    /\ UNCHANGED <<fnVars, configVars, loopVars,
                   webVars, cal, runs, trigger, stage_map, user_map, all_events,
                   mutable_events, baseline_etags, normalized_changes, changes_applied,
                   conflicts, mirrored, histVars>>

\* the planner's answers
PlannerChanges ==
    {Change(USER, MainUid, Missing, Val("B"), Missing),
     Change(INTAKE, NewUid, Val("T3"), Val("B "), Val("M")),
     Change(USER, MainUid, Val("not-a-datetime"), Missing, Missing),
     Change(SOURCE, RawUid, Null, Val("A"), Missing),
     Change("", MainUid, Missing, Val("B"), Missing)}

PlannerResponses == UNION {[1..n -> PlannerChanges] : n \in 0..MaxChanges}

\* sync_engine.py:868-901
Plan(raw_changes) ==
    /\ pc = "plan"
    /\ planner_calls' = [planner_calls EXCEPT ![Len(planner_calls)] = @ + 1]
    /\ audit' = audit \o <<AuditEvent("system", SystemAi, "ai_request", ""),
                           AuditEvent("system", SystemAi, "ai_response", "")>>
    /\ normalized_changes' = normalize_changes(raw_changes)
    /\ pc' = IF normalize_changes(raw_changes) = <<>> THEN "mirror" ELSE "reconcile"
    /\ UNCHANGED <<fnVars, configVars, loopVars,
                   webVars, cal, meta, runs, trigger, should_replan, stage_map, user_map,
                   all_events, mutable_events, baseline_etags, changes_applied, conflicts,
                   mirrored, upserts, edited, raced, mutated, faults>>

\* ai_client.generate_changes raises (ai_client.py:48-74)
PlanFail ==
    /\ pc = "plan"
    /\ faults < MaxFaults
    /\ faults' = faults + 1
    /\ planner_calls' = [planner_calls EXCEPT ![Len(planner_calls)] = @ + 1]
    /\ RunError(Append(audit, AuditEvent("system", SystemAi, "ai_request", "")))
    /\ UNCHANGED <<fnVars, configVars, loopVars,
                   webVars, cal, meta, localVars, upserts, edited, raced, mutated>>

\* the effects of one iteration that ended in context out
Reconciled(out) ==
    /\ cal' = out.cal
    /\ audit' = out.audit
    /\ mutable_events' = out.mutable_events
    /\ baseline_etags' = out.baseline_etags
    /\ changes_applied' = out.changes_applied
    /\ conflicts' = out.conflicts
    /\ upserts' = out.upserts

\* sync_engine.py:903-1031, one iteration
Reconcile ==
    /\ pc = "reconcile"
    /\ normalized_changes # <<>>
    /\ Reconciled(reconcile_change(Ctx, Head(normalized_changes)))
    /\ raced' = raced \cup {e.uid : e \in {t \in match_event(mutable_events,
                                                            Head(normalized_changes)) :
                                              t.uid \in edited /\ event_has_user_intent(t)}}
    /\ normalized_changes' = Tail(normalized_changes)
    /\ pc' = IF Tail(normalized_changes) = <<>> THEN "mirror" ELSE "reconcile"
    /\ UNCHANGED <<fnVars, configVars, loopVars,
                   webVars, meta, runs, trigger, should_replan, stage_map, user_map,
                   all_events, mirrored, planner_calls, edited, mutated, faults>>

\* sync_engine.py:1033-1083, one iteration; server is how the stage calendar
\* answers the write: "ok", a duplicate-UID error once ("duplicate"), a
\* duplicate-UID error and on the retry the same ("duplicate_again") or another
\* error ("duplicate_other"), or another error at once ("other")
MirrorAnswers == {"ok", "duplicate", "duplicate_again", "duplicate_other", "other"}

\* sync_engine.py:1073-1081: the error the retry raised, kept in the audit details
RetryError(server) == IF server = "duplicate_again" THEN "duplicate" ELSE "other"

\* repair_stage retrying although the delete removed nothing
repair_stage_unchecked(repaired, found, staging_event, server) ==
    IF server = "duplicate" THEN upsert_in(repaired, STAGE, staging_event)
    ELSE record_audit_event(repaired, STAGE, staging_event.uid,
                            "skip_stage_mirror_after_duplicate", RetryError(server))

\* sync_engine.py:1050-1082: the repair after a duplicate-UID error
repair_stage(repaired, found, staging_event, server) ==
    IF ~found THEN repaired
    ELSE IF server = "duplicate" THEN upsert_in(repaired, STAGE, staging_event)
    ELSE record_audit_event(repaired, STAGE, staging_event.uid,
                            "skip_stage_mirror_after_duplicate", RetryError(server))

mirror_one(ctx, user_event, server) ==
    IF server = "ok" THEN upsert_in(ctx, STAGE, mirror_event(user_event))
    ELSE IF server = "other" THEN raise(ctx)
    ELSE repair_stage(delete_and_audit(ctx, STAGE, user_event.uid, NoHref,
                                       STAGE, user_event.uid, "repair_stage_duplicate_uid"),
                      delete_ok(ctx, STAGE, user_event.uid, NoHref),
                      mirror_event(user_event), server)

Mirrored(out) ==
    /\ cal' = out.cal
    /\ upserts' = out.upserts
    /\ IF out.raised
       THEN RunError(audit) /\ mirrored' = mirrored
       ELSE /\ audit' = out.audit
            /\ mirrored' = mirrored + 1
            /\ UNCHANGED <<runs, pc>>

Mirror(server) ==
    /\ pc = "mirror"
    /\ mirrored < Len(mutable_events)
    /\ server # "ok" => faults < MaxFaults
    /\ faults' = IF server = "ok" THEN faults ELSE faults + 1
    /\ Mirrored(mirror_one(Ctx, mutable_events[mirrored + 1], server))
    /\ UNCHANGED <<fnVars, configVars, loopVars,
                   webVars, meta, trigger, should_replan, stage_map, user_map, all_events,
                   mutable_events, baseline_etags, normalized_changes, changes_applied,
                   conflicts, planner_calls, edited, raced, mutated>>

\* sync_engine.py:1085-1102
Finish ==
    /\ pc = "mirror"
    /\ mirrored = Len(mutable_events)
    /\ runs' = Append(runs, SyncRun(trigger, "success", changes_applied, conflicts))
    /\ pc' = "done"
    /\ UNCHANGED <<fnVars, configVars, loopVars, webVars, cal, meta, audit, localVars, histVars>>

\* the calendar's owner rewrites the title of a working-set event on the
\* server while the run is between its baseline snapshot and the write-back
UserEdit(uid) ==
    /\ pc \in {"gate", "plan", "reconcile"}
    /\ MapHas(mutable_events, uid)
    /\ uid \notin edited
    /\ \E r \in cal[USER] : r.uid = uid
    /\ cal' = [cal EXCEPT ![USER] =
                  {IF r.uid = uid THEN [r EXCEPT !.summary = "U"] ELSE r : r \in @}]
    /\ edited' = edited \cup {uid}
    /\ UNCHANGED <<fnVars, configVars, loopVars,
                   webVars, storeVars, pc, localVars, upserts, planner_calls, raced,
                   mutated, faults>>

\* scheduler.py:35-49: the loop waits and runs again
Tick ==
    /\ pc = "done"
    /\ Len(runs) < MaxRuns
    /\ pc' = "idle"
    /\ UNCHANGED <<fnVars, configVars, loopVars, webVars, cal, storeVars, localVars, histVars>>

(***************************************************************************)
(* The threads that call run_once: the scheduler's loop thread and the      *)
(* web server's worker threads (FastAPI runs a plain `def` endpoint on a    *)
(* worker thread).  Here run_once is the interval between a thread          *)
(* entering it and the thread recording the run on its way out.             *)
(***************************************************************************)
Workers == Threads \ {"scheduler"}

InRunOnce == {t \in Threads : running[t] # "no"}

\* a thread calls sync_engine.run_once(trigger=...)
Enter(thread, run_trigger) ==
    /\ Len(runs) + Cardinality(InRunOnce) < MaxThreadRuns
    /\ running' = [running EXCEPT ![thread] = run_trigger]

\* run_once returns to the thread (sync_engine.py:1085-1102)
Leave(thread) ==
    /\ running[thread] # "no"
    /\ runs' = Append(runs, SyncRun(running[thread], "success", 0, 0))
    /\ running' = [running EXCEPT ![thread] = "no"]

\* scheduler.py:41-48: wait(timeout) returns, the event is cleared, and the
\* loop thread runs once: manual when the event was set, scheduled otherwise
LoopRun ==
    /\ running["scheduler"] = "no"
    /\ Enter("scheduler", IF manual_trigger_event THEN "manual" ELSE "scheduled")
    /\ manual_trigger_event' = FALSE
    /\ UNCHANGED <<fnVars, configVars, loopVars, cal, storeVars, pc, localVars, histVars, response>>

\* scheduler.py:36 and 46-48: the loop thread's run_once returns
LoopReturn ==
    /\ Leave("scheduler")
    /\ UNCHANGED <<fnVars, configVars, loopVars,
                   cal, meta, audit, pc, localVars, histVars, response,
                   manual_trigger_event>>

\* web_admin.py:307-310 (POST /api/sync/run) and scheduler.py:31-32
TriggerSync ==
    /\ ~manual_trigger_event
    /\ manual_trigger_event' = TRUE
    /\ UNCHANGED <<fnVars, configVars, loopVars,
                   cal, storeVars, pc, localVars, histVars, response, running>>

\* web_admin.py:312-324 (POST /api/sync/run-window): the worker thread calls
\* run_once itself
WindowRun(worker) ==
    /\ running[worker] = "no"
    /\ Enter(worker, "manual-window")
    /\ UNCHANGED <<fnVars, configVars, loopVars, cal, storeVars, pc, localVars, histVars, response,
                   manual_trigger_event>>

\* web_admin.py:325-328: run_once returns and the request is answered
WindowReturn(worker) ==
    /\ worker \in Workers
    /\ Leave(worker)
    /\ UNCHANGED <<fnVars, configVars, loopVars,
                   cal, meta, audit, pc, localVars, histVars, response,
                   manual_trigger_event>>

\* scheduler.py:36: the loop thread starts inside its startup run
InitThreads ==
    /\ args = NotCalled
    /\ result = NotCalled
    /\ cal = [c \in CalendarIds |-> {}]
    /\ meta = NoMeta /\ audit = <<>> /\ runs = <<>> /\ planner_calls = <<>>
    /\ pc = "idle"
    /\ AtRest
    /\ response = NoResponse
    /\ running = [t \in Threads |-> IF t = "scheduler" THEN "startup" ELSE "no"]
    /\ manual_trigger_event = FALSE
    /\ NoLoop
    /\ NoUpdate

NextThreads ==
    \/ LoopRun
    \/ LoopReturn
    \/ TriggerSync
    \/ \E worker \in Workers : WindowRun(worker)
    \/ \E worker \in Workers : WindowReturn(worker)

SpecThreads == InitThreads /\ [][NextThreads]_vars

(***************************************************************************)
(* Initial states: what the calendars may hold when a run starts.           *)
(***************************************************************************)
Wanted == Task(TRUE, FALSE, FALSE, ALLOWED_FIELDS, "move it", "")
TimesOnly == Task(TRUE, FALSE, FALSE, {"start", "end"}, "move it", "")
Settled == Task(TRUE, FALSE, FALSE, ALLOWED_FIELDS, "", "general")
Pinned == Task(TRUE, TRUE, FALSE, ALLOWED_FIELDS, "move it", "")
Partial == Task(FALSE, FALSE, FALSE, {}, "move it", "")
Guarded == Task(TRUE, TRUE, TRUE, ALLOWED_FIELDS, "", "")
Foreign == Task(TRUE, FALSE, FALSE, {"start", "color"}, "move it", "")
Broken == InvalidBlock("move it")

Stored(uid, href, summary, block) ==
    Resource(href, uid, summary, Description("D", block), "L", 1, 2)

UserBlocks == {Wanted, TimesOnly, Settled, Pinned, Partial, Foreign, NoBlock, Broken}

UserCalendars ==
    {{}} \cup {{Stored(MainUid, href_of(MainUid), "A", b)} : b \in UserBlocks}

\* leftovers of earlier versions: a nested UID, a duplicated UID, a plain UID
LegacyUserCalendars ==
    {{Stored(NestedUid, href_of(NestedUid), "A", Wanted)},
     {Stored(MainUid, href_of(MainUid), "A", Wanted),
      Stored(NestedUid, href_of(NestedUid), "A", Wanted)},
     {Stored(EarlyUid, href_of(EarlyUid), "A", Settled),
      Stored(MainUid, href_of(MainUid), "A", Wanted)},
     {Stored(MainUid, href_of(MainUid), "A", Wanted),
      Stored(MainUid, copy_href_of(MainUid), "A", Settled)},
     {Stored(RawUid, href_of(RawUid), "A", Wanted)}}

\* the stage twins an earlier mirror pass left for the user calendar
Twins(user) ==
    {Resource(href_of(r.uid), r.uid, r.summary, r.description, r.location, r.start, r.end) :
        r \in {x \in user : x.href = href_of(x.uid)}}
Drifted(user) == {[r EXCEPT !.summary = "Z"] : r \in Twins(user)}
Stale == Stored(StaleUid, href_of(StaleUid), "A", Settled)

StageCalendars(user) ==
    {{}, Twins(user), Drifted(user), {Stale}, Twins(user) \cup {Stale}}

LegacyStageCalendars(user) ==
    {Twins(user),
     Twins(user) \cup {Stored(NestedUid, copy_href_of(NestedUid), "A", Wanted)},
     Twins(user) \cup {Stored(MainUid, copy_href_of(MainUid), "A", Wanted)}}

IntakeCalendars ==
    {{}, {Stored(NewUid, href_of(NewUid), "A", NoBlock)},
     {Stored(MainUid, href_of(MainUid), "A", Wanted)}}

\* <<immutable calendar, editable source calendar>>
OutsideCalendars ==
    {<<{}, {}>>,
     <<{Stored(FixedUid, href_of(FixedUid), "F", NoBlock)}, {}>>,
     <<{Stored(FixedUid, href_of(FixedUid), "F", Guarded)}, {}>>,
     <<{}, {Stored(RawUid, href_of(RawUid), "A", Wanted)}>>,
     <<{}, {Stored(RawUid, href_of(RawUid), "A", NoBlock)}>>}

Server(stage, user, intake, outside) ==
    [c \in CalendarIds |->
        CASE c = STAGE -> stage
          [] c = USER -> user
          [] c = INTAKE -> intake
          [] c = FIXED -> outside[1]
          [] c = SOURCE -> outside[2]
          [] c = DUP -> {}]

Servers ==
    UNION {{Server(stage, user, intake, outside) :
               stage \in StageCalendars(user), intake \in IntakeCalendars,
               outside \in OutsideCalendars} : user \in UserCalendars}

LegacyServers ==
    UNION {{Server(stage, user, {}, outside) :
               stage \in {{}, Twins(user)},
               outside \in {<<{}, {}>>,
                            <<{}, {Stored(RawUid, href_of(RawUid), "A", Wanted)}>>}} :
           user \in LegacyUserCalendars}
    \cup {Server(stage, {Stored(MainUid, href_of(MainUid), "A", Wanted)}, {}, <<{}, {}>>) :
             stage \in LegacyStageCalendars({Stored(MainUid, href_of(MainUid), "A", Wanted)})}

\* servers that list a second calendar under the user calendar's name
DuplicateServers ==
    {[Server(Twins(user), user, {}, <<{}, {}>>) EXCEPT
         ![DUP] = {Stored(RawUid, href_of(RawUid), "A", NoBlock)}] :
        user \in {{}, {Stored(MainUid, href_of(MainUid), "A", Settled)}}}

InitStore ==
    /\ meta = NoMeta
    /\ audit = <<>>
    /\ runs = <<>>
    /\ planner_calls = <<>>

Init ==
    /\ args = NotCalled
    /\ result = NotCalled
    /\ cal \in Servers \cup LegacyServers \cup DuplicateServers
    /\ InitStore
    /\ pc = "idle"
    /\ AtRest
    /\ NoRequest

Next ==
    \/ \E t \in Triggers, caldav_configured \in BOOLEAN : Start(t, caldav_configured)
    \/ Duplicates
    \/ StageHygiene
    \/ \E fault \in Faults : UserHygiene(fault)
    \/ \E fault \in Faults : Intake(fault)
    \/ \E fault \in Faults : Sources(fault)
    \/ UserLayer
    \/ Gate
    \/ \E raw_changes \in PlannerResponses : Plan(raw_changes)
    \/ PlanFail
    \/ Reconcile
    \/ \E server \in MirrorAnswers : Mirror(server)
    \/ Finish
    \/ FetchFail
    \/ \E uid \in {MainUid, SeedUid} : UserEdit(uid)

\* one run_once, under any trigger, with server errors and a racing user
Spec == Init /\ [][Next]_vars

\* the scheduler's loop: consecutive scheduled runs, nothing else touching
\* the calendars, the configuration or the state store
InitScheduled ==
    /\ args = NotCalled
    /\ result = NotCalled
    /\ cal \in Servers \cup LegacyServers
    /\ InitStore
    /\ pc = "idle"
    /\ AtRest
    /\ NoRequest

NextScheduled ==
    \/ Start("scheduled", TRUE)
    \/ Duplicates
    \/ StageHygiene
    \/ UserHygiene("none")
    \/ Intake("none")
    \/ Sources("none")
    \/ UserLayer
    \/ Gate
    \/ \E raw_changes \in PlannerResponses : Plan(raw_changes)
    \/ PlanFail
    \/ Reconcile
    \/ Mirror("ok")
    \/ Finish
    \/ Tick

SpecScheduled == InitScheduled /\ [][NextScheduled]_vars

\* one manual run on a mirrored user calendar, the planner answering with up
\* to MaxBatch changes in one response
BatchResponses == UNION {[1..n -> PlannerChanges] : n \in 1..MaxBatch}

InitBatch ==
    /\ args = NotCalled
    /\ result = NotCalled
    /\ cal \in {Server(Twins(user), user, {}, <<{}, {}>>) : user \in UserCalendars}
    /\ InitStore
    /\ pc = "idle"
    /\ AtRest
    /\ NoRequest

NextBatch ==
    \/ Start("manual", TRUE)
    \/ Duplicates
    \/ StageHygiene
    \/ UserHygiene("none")
    \/ Intake("none")
    \/ Sources("none")
    \/ UserLayer
    \/ Gate
    \/ \E raw_changes \in BatchResponses : Plan(raw_changes)
    \/ Reconcile
    \/ Mirror("ok")
    \/ Finish

SpecBatch == InitBatch /\ [][NextBatch]_vars

(***************************************************************************)
(* The admin API's undo and revise endpoints (web_admin.py:464-571).  A     *)
(* client names an audit event by its id after a run; the calendar's owner  *)
(* may have edited the event in between.                                    *)
(***************************************************************************)
MaxRequests == 2

Instructions == {"later please"}

WebActions == {"undo_ai_change", "undo_ai_change_failed", "request_ai_revision"}
WebAudits == Cardinality({i \in DOMAIN audit : audit[i].action \in WebActions})

\* web_admin.py:108-125 on EventRecord.to_dict (models.py:203-207): the
\* datetimes are serialized and parsed back to the same instants, the
\* summary is stripped
event_from_dict(payload) == [payload EXCEPT !.summary = strip(@)]

\* web_admin.py:479-483
expected_etag_of(details) ==
    IF "expected_etag" \in DOMAIN details /\ details.expected_etag # NoEtag
    THEN details.expected_etag
    ELSE IF "after_event" \in DOMAIN details THEN details.after_event.etag ELSE NoEtag

etag_differs_never(current_etag, expected_etag) == FALSE

\* web_admin.py:516
etag_differs(current_etag, expected_etag) == current_etag # expected_etag

\* the request is answered: the HTTP status, the audit log and the server
Answer(request, audit_id, status, log, server) ==
    /\ response' = [status |-> status, request |-> request, audit_id |-> audit_id]
    /\ audit' = log
    /\ cal' = server

\* web_admin.py:485-497
record_undo_failure(before_event, reason) ==
    Append(audit, AuditEvent(before_event.calendar_id, before_event.uid,
                             "undo_ai_change_failed", reason))

\* web_admin.py:499-532; current_event is get_event_by_uid's answer
undo_checked(audit_id, before_event, expected_etag, current_event, fault) ==
    IF current_event = {} /\ expected_etag # NoEtag
    THEN Answer("undo", audit_id, 404,
                record_undo_failure(before_event, "target_event_not_found"), cal)
    ELSE IF current_event # {} /\ expected_etag = NoEtag
    THEN Answer("undo", audit_id, 400,
                record_undo_failure(before_event, "expected_etag_missing"), cal)
    ELSE IF /\ current_event # {}
            /\ etag_differs((CHOOSE e \in current_event : TRUE).etag, expected_etag)
    THEN Answer("undo", audit_id, 409,
                record_undo_failure(before_event, "version_conflict"), cal)
    ELSE IF fault # "none"
    THEN Answer("undo", audit_id, 500,
                record_undo_failure(before_event, "undo_apply_error"), cal)
    ELSE Answer("undo", audit_id, 200,
                Append(audit, AuditEvent(before_event.calendar_id, before_event.uid,
                                         "undo_ai_change", "")),
                [cal EXCEPT ![before_event.calendar_id] = upsert_calendar(@, before_event)])

undo_event(audit_id, details, before_event, fault) ==
    undo_checked(audit_id, before_event, expected_etag_of(details),
                 get_event_by_uid(before_event.calendar_id, cal[before_event.calendar_id],
                                  before_event.uid),
                 fault)

\* POST /api/ai/changes/undo (web_admin.py:464-532)
Undo(audit_id, fault) ==
    /\ pc = "done"
    /\ WebAudits < MaxRequests
    /\ IF audit_id \notin DOMAIN audit
       THEN Answer("undo", audit_id, 404, audit, cal)
       ELSE IF audit[audit_id].action # "apply_ai_change"
       THEN Answer("undo", audit_id, 400, audit, cal)
       ELSE undo_event(audit_id, audit[audit_id].detail,
                       event_from_dict(audit[audit_id].detail.before_event), fault)
    /\ UNCHANGED <<fnVars, configVars, loopVars, meta, runs, pc, localVars, histVars, running,
                   manual_trigger_event>>

\* web_admin.py:551-557: the target with the new instruction in its block
revised(target_event, instruction) ==
    [target_event EXCEPT !.description =
        set_ai_task_user_intent(target_event.description, task_defaults, instruction)[1]]

\* web_admin.py:546-571; target_event is get_event_by_uid's answer
revise_event(audit_id, calendar_id, uid, target_event, instruction) ==
    IF target_event = {}
    THEN /\ Answer("revise", audit_id, 404, audit, cal)
         /\ UNCHANGED manual_trigger_event
    ELSE /\ Answer("revise", audit_id, 200,
                   Append(audit, AuditEvent(calendar_id, uid, "request_ai_revision",
                                            instruction)),
                   [cal EXCEPT ![calendar_id] =
                       upsert_calendar(@, revised(CHOOSE e \in target_event : TRUE,
                                                  instruction))])
         /\ manual_trigger_event' = TRUE

\* POST /api/ai/changes/revise (web_admin.py:534-571)
Revise(audit_id, instruction) ==
    /\ pc = "done"
    /\ WebAudits < MaxRequests
    /\ IF audit_id \notin DOMAIN audit
       THEN Answer("revise", audit_id, 404, audit, cal) /\ UNCHANGED manual_trigger_event
       ELSE IF audit[audit_id].action # "apply_ai_change"
       THEN Answer("revise", audit_id, 400, audit, cal) /\ UNCHANGED manual_trigger_event
       ELSE revise_event(audit_id, audit[audit_id].calendar_id, audit[audit_id].uid,
                         get_event_by_uid(audit[audit_id].calendar_id,
                                          cal[audit[audit_id].calendar_id],
                                          audit[audit_id].uid),
                         instruction)
    /\ UNCHANGED <<fnVars, configVars, loopVars, meta, runs, pc, localVars, histVars, running>>

\* the calendar's owner rewrites the title of an event on the server after
\* the run has ended
LateEdit(uid) ==
    /\ pc = "done"
    /\ uid \notin edited
    /\ \E r \in cal[USER] : r.uid = uid
    /\ cal' = [cal EXCEPT ![USER] =
                  {IF r.uid = uid THEN [r EXCEPT !.summary = "U"] ELSE r : r \in @}]
    /\ edited' = edited \cup {uid}
    /\ UNCHANGED <<fnVars, configVars, loopVars,
                   webVars, storeVars, pc, localVars, upserts, planner_calls, raced,
                   mutated, faults>>

InitWeb ==
    /\ args = NotCalled
    /\ result = NotCalled
    /\ cal \in {Server(Twins(user), user, {}, <<{}, {}>>) : user \in UserCalendars}
    /\ InitStore
    /\ pc = "idle"
    /\ AtRest
    /\ NoRequest

NextWeb ==
    \/ Start("manual", TRUE)
    \/ Duplicates
    \/ StageHygiene
    \/ UserHygiene("none")
    \/ Intake("none")
    \/ Sources("none")
    \/ UserLayer
    \/ Gate
    \/ \E raw_changes \in PlannerResponses : Plan(raw_changes)
    \/ Reconcile
    \/ Mirror("ok")
    \/ Finish
    \/ LateEdit(MainUid)
    \/ \E audit_id \in 1..(Len(audit) + 1), fault \in {"none", "other"} : Undo(audit_id, fault)
    \/ \E audit_id \in 1..(Len(audit) + 1), instruction \in Instructions :
           Revise(audit_id, instruction)

SpecWeb == InitWeb /\ [][NextWeb]_vars

(***************************************************************************)
(* apply_change as a pure function: the arguments are drawn from bounded    *)
(* sets, one call is made, and the result is kept.                          *)
(***************************************************************************)
ApplyEtags == {NoEtag, Hash("e1"), Hash("e2")}

\* EventRecord (models.py:185-201), the fields apply_change reads or copies
ApplyEvents ==
    {[uid |-> "uid-1", summary |-> "A", description |-> Description("D", NoBlock),
      location |-> "L", start |-> 1, end |-> 2,
      etag |-> e, locked |-> l, mandatory |-> m] :
        e \in {NoEtag, Hash("e1")}, l \in BOOLEAN, m \in BOOLEAN}

DateSlots == {Missing, Null, Val("T1Z"), Val("T3"), Val("not-a-datetime")}
EndSlots == {Missing, Val("T2"), Val("T3"), Val("not-a-datetime")}
TextSlots(same, other) == {Missing, Val(same), Val(other)}

ApplyChanges ==
    {[start |-> st, end |-> en, summary |-> su, location |-> lo, description |-> de] :
        st \in DateSlots, en \in EndSlots,
        su \in TextSlots("A", "B") \cup {Null},
        lo \in {Missing, Val("M")},
        de \in {Missing, Val(Description("E", NoBlock))}}

\* every subset of the five fields, and lists with an unknown or a blank name
ApplyEditable ==
    (SUBSET ALLOWED_FIELDS) \cup {{"priority"}, {" "}, {"priority", "start"}}

InitApply ==
    /\ args \in [current_event : ApplyEvents, change : ApplyChanges,
                 baseline_etag : ApplyEtags, editable_fields : ApplyEditable]
    /\ result = NotCalled
    /\ cal = [c \in CalendarIds |-> {}]
    /\ InitStore
    /\ pc = "idle"
    /\ AtRest
    /\ NoRequest

CallApply ==
    /\ ~result.called
    /\ result' = Returned(apply_change(args.current_event, args.change,
                                       args.baseline_etag, args.editable_fields))
    /\ UNCHANGED <<args, configVars, loopVars, cal, storeVars, pc, localVars, histVars, webVars>>

NextApply == CallApply

SpecApply == InitApply /\ [][NextApply]_vars

(***************************************************************************)
(* Claims about apply_change (checked under SpecApply).                     *)
(***************************************************************************)
CurrentEvent == args.current_event
Outcome == result.value
Unlocked == ~CurrentEvent.locked /\ ~CurrentEvent.mandatory

\* the fields the caller's list makes editable; no list (or an empty one)
\* restricts nothing
EditableOf(editable_fields) ==
    IF editable_fields = {} THEN ALLOWED_FIELDS ELSE editable_fields \cap ALLOWED_FIELDS

\* the value the change asks for in a field
Proposed(field) ==
    IF field \in DateFields
    THEN (IF args.change[field].kind = "none" THEN CurrentEvent[field]
          ELSE parse_iso_datetime(args.change[field]))
    ELSE (IF args.change[field].kind = "none"
          THEN (IF field = "description" THEN EmptyDescription ELSE "")
          ELSE args.change[field].v)

C3_LockedOrMandatoryIsConflict ==
    (result.called /\ (CurrentEvent.locked \/ CurrentEvent.mandatory))
    => (Outcome.conflicted /\ ~Outcome.applied
        /\ Outcome.reason = "event_locked_or_mandatory"
        /\ Outcome.event = CurrentEvent
        /\ Outcome.blocked_fields = {})

C3_Witness ==
    /\ result.called
    /\ CurrentEvent.mandatory /\ ~CurrentEvent.locked
    /\ args.change.summary = Val("B") /\ args.change.start = Val("T3")
    /\ args.baseline_etag = CurrentEvent.etag
    /\ Outcome.reason = "event_locked_or_mandatory"

\* C4 as stated: every named field outside editable_fields keeps its value and
\* is listed in blocked_fields, and every named editable field is applied.
C4_BlockedListedAndRestApplied ==
    result.called =>
        \A f \in ALLOWED_FIELDS :
            Named(args.change, f) =>
                IF f \in EditableOf(args.editable_fields)
                THEN Outcome.event[f] = Proposed(f)
                ELSE Outcome.event[f] = CurrentEvent[f] /\ f \in Outcome.blocked_fields

\* C4 amended: no outcome modifies a field outside editable_fields; when the
\* outcome is not a conflict, the named fields outside editable_fields are
\* exactly blocked_fields and the named editable fields take the proposed
\* values; a conflict returns the event unmodified with no blocked field.
C4_NeverModifiesOutsideEditable ==
    result.called =>
        /\ \A f \in ALLOWED_FIELDS \ EditableOf(args.editable_fields) :
               Outcome.event[f] = CurrentEvent[f]
        /\ \A f \in ALLOWED_FIELDS : ~Named(args.change, f) =>
               Outcome.event[f] = CurrentEvent[f]
        /\ ~Outcome.conflicted =>
               /\ Outcome.blocked_fields =
                     {f \in ALLOWED_FIELDS \ EditableOf(args.editable_fields) :
                         Named(args.change, f)}
               /\ \A f \in EditableOf(args.editable_fields) :
                     Named(args.change, f) => Outcome.event[f] = Proposed(f)
        /\ Outcome.conflicted =>
               Outcome.event = CurrentEvent /\ Outcome.blocked_fields = {}

C4_Witness ==
    /\ result.called
    /\ args.editable_fields = {"start", "end"}
    /\ args.change.summary = Val("B") /\ args.change.start = Val("T3")
    /\ Outcome.applied
    /\ Outcome.event.summary = "A" /\ Outcome.event.start = 3
    /\ Outcome.blocked_fields = {"summary"}

(***************************************************************************)
(* Claims about run_once (specifications Spec and SpecScheduled).           *)
(***************************************************************************)
Succeeded == pc = "done" /\ runs # <<>> /\ runs[Len(runs)].status = "success"

Audited(action, uid) ==
    \E i \in DOMAIN audit : audit[i].action = action /\ audit[i].uid = uid

AuditedWith(action, uid, detail) ==
    \E i \in DOMAIN audit :
        audit[i].action = action /\ audit[i].uid = uid /\ audit[i].detail = detail

OnServer(calendar_id, uid) == {r \in cal[calendar_id] : r.uid = uid}

WorkingSet == {mutable_events[i] : i \in DOMAIN mutable_events}

\* the user_intent the event's task block carries
IntentOf(event) ==
    IF event.description.block.kind = "none" THEN ""
    ELSE event.description.block.user_intent

\* C1: when the user rewrites a working-set event on the server after its
\* baseline etag was taken and a planner change then reaches apply_change
\* for it, the run counts a conflict, audits user_modified_after_planning
\* for that event and leaves the user's version on the server.
C1_RaceIsConflict ==
    \A e \in WorkingSet :
        (e.uid \in raced /\ ~e.locked /\ ~e.mandatory) =>
            /\ conflicts >= 1
            /\ AuditedWith("conflict", e.uid, "user_modified_after_planning")
            /\ \A r \in OnServer(USER, e.uid) : r.summary = "U"

C6_NeverUpsertsImmutable == \A u \in upserts : u[1] # FIXED

\* the stage twin of a working-set event: same UID, same fingerprint
HasTwin(event) ==
    \E r \in cal[STAGE] :
        /\ r.uid = event.uid
        /\ event_fingerprint(parse_resource(STAGE, r)) = event_fingerprint(event)

\* the duplicate repair of the event's stage write was given up
GivenUp(uid) ==
    \/ AuditedWith("repair_stage_duplicate_uid", uid, "delete_failed")
    \/ Audited("skip_stage_mirror_after_duplicate", uid)

C8_StageUidsEqualUserUids ==
    Succeeded => {r.uid : r \in cal[STAGE]} = {r.uid : r \in cal[USER]}

SourceNormalizations == {"seed_or_normalize_ai_task"}

\* C10: at the gate, should_replan holds exactly when the trigger is manual
\* or startup, or a working-set event has no stage twin with its
\* fingerprint, or a stage UID has no user twin, or an ingestion, migration
\* or purge step of this run wrote or deleted something.
C10_ReplanIffCause ==
    pc = "gate" =>
        (should_replan <=>
            \/ trigger \in {"manual", "startup"}
            \/ \E e \in WorkingSet :
                  \/ ~MapHas(stage_map, e.uid)
                  \/ event_fingerprint(MapGet(stage_map, e.uid)) # event_fingerprint(e)
            \/ \E i \in DOMAIN stage_map : ~MapHas(mutable_events, stage_map[i].uid)
            \/ mutated \ SourceNormalizations # {})

\* the user-layer UID an intake UID is imported under
ImportTarget(uid) == <<sha1_prefix(INTAKE)>> \o uid

\* an intake resource with an unprefixed UID whose target is not in user_map
Importable(resource) ==
    /\ managed_uid_prefix_depth(resource.uid) = 0
    /\ ~MapHas(user_map, ImportTarget(resource.uid))

KnownManagedIds == {STAGE, USER, INTAKE}

\* C12: a calendar that shares the user calendar's name, is not the resolved
\* user calendar and whose id is not known-managed keeps its events: the
\* duplicate pass deletes nothing from it, records
\* warn_unverified_duplicate_user_calendar and leaves should_replan as it was.
C12_UnverifiedDuplicateIsKept ==
    [][(pc = "duplicates" /\ pc' = "stage" /\ cal[DUP] # {} /\ DUP \notin KnownManagedIds)
          => /\ cal'[DUP] = cal[DUP]
             /\ should_replan' = should_replan
             /\ \E i \in DOMAIN audit' :
                   /\ audit'[i].calendar_id = DUP
                   /\ audit'[i].action = "warn_unverified_duplicate_user_calendar"]_vars

\* the planner change the next Reconcile step works on
HeadChange ==
    IF normalized_changes = <<>> THEN Change("", <<"">>, Missing, Missing, Missing)
    ELSE Head(normalized_changes)

\* what apply_change answers for the event the way the reconcile loop calls it
OutcomeFor(event) ==
    apply_change(event, HeadChange, baseline_of(baseline_etags, event.uid),
                 extract_editable_fields(event, task_defaults.editable_fields))

HasIntent(event) == IntentOf(event) \notin {"", " "}

\* a Reconcile step (not a user edit) is being taken
Reconciling == pc = "reconcile" /\ normalized_changes' # normalized_changes

\* the user_intent of every stored copy of the user-layer event is empty
IntentCleared(server, uid) ==
    \A r \in server[USER] :
        r.uid = uid => r.description.block.kind = "task"
                       /\ r.description.block.user_intent = ""

\* C13: a Reconcile step whose change matches a user-layer event with intent
\* and names only values the event already has records
\* ai_change_skipped_no_effect for the event and leaves the stored task block
\* with an empty user_intent.
C13_NoEffectConsumesIntent ==
    [][\A e \in match_event(mutable_events, HeadChange) :
          (Reconciling /\ HasIntent(e) /\ OutcomeFor(e).reason = "no_changes")
          => /\ audit' # audit
             /\ audit'[Len(audit')] =
                    AuditEvent(USER, e.uid, "ai_change_skipped_no_effect", "")
             /\ IntentCleared(cal', e.uid)]_vars

\* the change alters a field of the event as the server stores it
RealDifference(event) ==
    /\ OutcomeFor(event).applied
    /\ \/ strip(OutcomeFor(event).event.summary) # event.summary
       \/ strip(OutcomeFor(event).event.location) # event.location
       \/ OutcomeFor(event).event.start # event.start

CountOf(log, action, uid) ==
    Cardinality({i \in DOMAIN log : log[i].action = action /\ log[i].uid = uid})

\* C14: a Reconcile step whose change makes a real field difference on a
\* user-layer event with intent that is neither locked nor mandatory writes
\* the changed event to the user calendar, adds one to changes_applied,
\* records one apply_ai_change audit for it and leaves the stored task
\* block with an empty user_intent.
C14_AppliedChangeIsWrittenOnce ==
    [][\A e \in match_event(mutable_events, HeadChange) :
          (Reconciling /\ HasIntent(e) /\ ~e.locked /\ ~e.mandatory /\ RealDifference(e))
          => /\ changes_applied' = changes_applied + 1
             /\ conflicts' = conflicts
             /\ CountOf(audit', "apply_ai_change", e.uid)
                    = CountOf(audit, "apply_ai_change", e.uid) + 1
             /\ <<USER, e.uid>> \in upserts'
             /\ \E r \in cal'[USER] :
                   /\ r.uid = e.uid
                   /\ r.summary = strip(OutcomeFor(e).event.summary)
                   /\ r.location = strip(OutcomeFor(e).event.location)
                   /\ r.start = OutcomeFor(e).event.start
             /\ IntentCleared(cal', e.uid)
             /\ IntentOf(MapGet(mutable_events', e.uid)) = ""]_vars

C14_Witness ==
    /\ pc = "mirror"
    /\ changes_applied = 1
    /\ CountOf(audit, "apply_ai_change", MainUid) = 1
    /\ Audited("ai_change_blocked_by_editable_fields", MainUid)
    /\ IntentCleared(cal, MainUid)
    /\ \E r \in cal[USER] : r.uid = MainUid /\ r.start = 3 /\ r.summary = "A"

\* the change names a start that is no ISO datetime
InvalidDatetime(change) ==
    Named(change, "start") /\ parse_iso_datetime(change.start) = ParseError

IndexOf(log, action, detail) ==
    {i \in DOMAIN log : log[i].action = action /\ log[i].detail = detail}

RunsStarted == Len(planner_calls)

RunInProgress == pc \notin {"idle", "done"}

\* C16: every run records exactly one sync_runs row, when it returns and not
\* before; the row's status is success, skipped or error; and the run that
\* ended in the exception handler, whatever pass raised, has status error
\* and run_error as its last audit event, while no other run records
\* run_error.
C16_OneRowPerRun ==
    /\ \A i \in DOMAIN runs : runs[i].status \in {"success", "skipped", "error"}
    /\ Len(runs) = IF RunInProgress THEN RunsStarted - 1 ELSE RunsStarted
    /\ pc = "done" =>
          (runs[Len(runs)].status = "error"
              <=> (audit # <<>> /\ audit[Len(audit)].action = "run_error"))
    /\ Cardinality({i \in DOMAIN audit : audit[i].action = "run_error"})
          = Cardinality({i \in DOMAIN runs : runs[i].status = "error"})

\* a run ended by a planner failure after its ingestion had already written
C16_Witness ==
    /\ pc = "done"
    /\ Len(runs) = 1
    /\ runs[1].status = "error"
    /\ audit[Len(audit)].action = "run_error"
    /\ planner_calls = <<1>>
    /\ upserts # {}

\* C17: at no time are two threads inside run_once.
C17_RunsNeverOverlap == Cardinality(InRunOnce) <= 1

(***************************************************************************)
(* Claims about the undo and revise endpoints.                              *)
(***************************************************************************)
LastAudit(log) == log[Len(log)]

\* the step answers request `request` about audit event id, an applied
\* AI change, and leaves a record in the audit log
Handled(request, id) ==
    /\ audit[id].action = "apply_ai_change"
    /\ response'.request = request
    /\ response'.audit_id = id
    /\ Len(audit') = Len(audit) + 1

LiveEvent(id) == get_event_by_uid(audit[id].calendar_id, cal[audit[id].calendar_id],
                                  audit[id].uid)

LiveEtagDiffers(id) ==
    \E e \in LiveEvent(id) : e.etag # expected_etag_of(audit[id].detail)

Restored(server, before_event) ==
    \E e \in get_event_by_uid(before_event.calendar_id, server[before_event.calendar_id],
                              before_event.uid) :
        \A f \in ALLOWED_FIELDS : e[f] = before_event[f]

C19_ReviseChecksEtag ==
    [][\A id \in DOMAIN audit :
          (Handled("revise", id) /\ LiveEtagDiffers(id)) =>
              /\ response'.status = 409
              /\ cal' = cal]_vars

(***************************************************************************)
(* Claims about the task blocks of the working set.                         *)
(***************************************************************************)
IngestionEnded == pc \in {"gate", "plan", "reconcile", "mirror"}

Clamped(block) ==
    /\ block.kind = "task"
    /\ block.editable_fields # {}
    /\ block.editable_fields \subseteq ALLOWED_FIELDS

\* C20: once a run has reached the end of ingestion, every user-layer event
\* of the working set carries a parseable task block whose editable_fields
\* is non-empty and a subset of {start, end, summary, location, description},
\* whatever editable_fields the stored block contained.
C20_WorkingSetBlocksAreClamped ==
    IngestionEnded =>
        \A i \in DOMAIN mutable_events :
            Clamped(parse_ai_task_block(mutable_events[i].description))

(***************************************************************************)
(* Claims about invalid blocks, source calendars and nested UIDs.           *)
(***************************************************************************)
\* a stored user-layer event whose block is not valid YAML and holds a
\* user_intent line
InvalidWithIntent(server) ==
    \E r \in server[USER] :
        r.description.block.kind = "invalid" /\ r.description.block.user_intent # ""

\* C21: a user-layer event whose [AI Task] block is syntactically invalid but
\* holds a user_intent line does not fail the run (no server or planner
\* fault being involved), and while planner changes are reconciled the event
\* still counts as having user intent.
C21_InvalidBlockKeepsRunAndIntent ==
    /\ (pc = "done" /\ faults = 0 /\ runs # <<>> /\ InvalidWithIntent(cal)) =>
           runs[Len(runs)].status # "error"
    /\ pc = "reconcile" =>
           \A e \in WorkingSet :
               e.description.block.kind = "invalid" /\ e.description.block.user_intent # ""
                   => event_has_user_intent(e)

\* C22: run_once never upserts an event into an editable source calendar, so
\* no source event gains an [AI Task] block; the block is added only to the
\* user-layer twin under staging_uid(source calendar, uid).
C22_NeverUpsertsSource ==
    /\ \A u \in upserts : u[1] # SOURCE
    /\ \A r \in cal[SOURCE] : r.uid = RawUid => r.description.block \in {NoBlock, Wanted}

\* the stored user-layer events with a nested UID whose collapsed UID is the
\* UID of another stored user-layer event
NestedWithTwin(server) ==
    {r \in server[USER] :
        /\ managed_uid_prefix_depth(r.uid) >= 2
        /\ \E t \in server[USER] :
               t.uid # r.uid /\ t.uid = SubSeq(r.uid, managed_uid_prefix_depth(r.uid), Len(r.uid))}

AuditedSince(log, later, action, uid) ==
    \E i \in DOMAIN later : i > Len(log) /\ later[i].action = action /\ later[i].uid = uid

C24_WorkingSetIsNamespaced ==
    IngestionEnded =>
        \A e \in WorkingSet :
            /\ e.calendar_id = USER
            /\ managed_uid_prefix_depth(e.uid) = 1

(***************************************************************************)
(* Claims about the order of the reconciler's gates.                        *)
(***************************************************************************)
\* C25 (checked under SpecApply): the gates apply in the order locked or
\* mandatory, editable-field blocking, missing intent, invalid_datetime,
\* user_modified_after_planning; so a locked or mandatory event gives
\* event_locked_or_mandatory, and on any other event a change with an
\* unparsable start or end gives invalid_datetime, whatever the etags.
C25_GatesInStatedOrder ==
    result.called =>
        IF ~Unlocked THEN Outcome.reason = "event_locked_or_mandatory"
        ELSE (\E f \in DateFields :
                  Named(args.change, f) /\ parse_iso_datetime(args.change[f]) = ParseError)
             => Outcome.reason = "invalid_datetime"

(***************************************************************************)
(* Claims about consecutive scheduled runs (checked under SpecScheduled).   *)
(***************************************************************************)
\* the run before the current one called the planner and ended in error
PlannerFailedLastRun ==
    /\ runs # <<>>
    /\ runs[Len(runs)].status = "error"
    /\ Len(planner_calls) = Len(runs) + 1
    /\ planner_calls[Len(runs)] = 1

\* C26: the stored planning-payload fingerprint is that of the last planner
\* call that completed: when a scheduled run's planner call failed, the next
\* scheduled run that wants to replan is not suppressed by the fingerprint
\* and calls the planner again, the payload being the same or not.
C26_FailedCallIsRetried ==
    [][(pc = "gate" /\ trigger = "scheduled" /\ should_replan /\ PlannerFailedLastRun)
          => /\ pc' = "plan"
             /\ audit' = audit]_vars

\* C27: of two back-to-back scheduled runs with no external change, the
\* second records skip_ai_same_payload and reports changes_applied = 0.
C27_SecondScheduledRunSkips ==
    (Len(runs) = 2 /\ pc = "done" /\ runs[1].status = "success"
        /\ runs[2].status = "success")
    => /\ \E i \in DOMAIN audit : audit[i].action = "skip_ai_same_payload"
       /\ runs[2].changes_applied = 0

\* the working-set event a planner change designates under the stated priority:
\* same calendar and UID, else the user-layer event under the namespaced UID,
\* else the only event with that UID
Target(change) ==
    LET direct == {e \in WorkingSet : e.calendar_id = change.calendar_id /\ e.uid = change.uid}
        mapped == {e \in WorkingSet : /\ e.calendar_id = USER
                                      /\ e.uid = staging_uid(change.calendar_id, change.uid)}
        by_uid == {e \in WorkingSet : e.uid = change.uid}
    IN  IF direct # {} THEN direct
        ELSE IF mapped # {} THEN mapped
        ELSE IF Cardinality(by_uid) = 1 THEN by_uid
        ELSE {}

AuditsAdded == {audit'[i] : i \in (Len(audit) + 1)..Len(audit')}

\* C28: a planner change is matched to a working-set event by calendar and UID,
\* else by the namespaced UID in the user layer, else by UID alone when exactly
\* one event carries it; a change that matches nothing is recorded as
\* ai_change_unmatched and causes no write, and a matched change touches no
\* event but its target
C28_ChangeMatchedByPriority ==
    [][Reconciling =>
          IF Target(HeadChange) = {}
          THEN /\ audit' = Append(audit, AuditEvent("system", SystemAi,
                                                    "ai_change_unmatched", ""))
               /\ cal' = cal
               /\ upserts' = upserts
               /\ changes_applied' = changes_applied
          ELSE \A e \in Target(HeadChange) :
                  /\ \A a \in AuditsAdded : a.uid = e.uid /\ a.action # "ai_change_unmatched"
                  /\ upserts' \ upserts \subseteq {<<USER, e.uid>>}
                  /\ \A c \in DOMAIN cal :
                        {r \in cal'[c] : c # USER \/ r.uid # e.uid}
                            = {r \in cal[c] : c # USER \/ r.uid # e.uid}]_vars

\* a change naming the intake calendar and the original UID was applied to the
\* user-layer event under the namespaced UID
C28_Witness ==
    /\ pc = "mirror"
    /\ Audited("apply_ai_change", MainUid)
    /\ \E r \in cal[USER] : r.uid = MainUid /\ r.location = "M" /\ r.start = 3

\* one iteration of the stage mirror is taken
Mirroring ==
    /\ pc = "mirror"
    /\ mirrored < Len(mutable_events)
    /\ mirrored' = mirrored + 1 \/ pc' = "done"

\* the stage write of the iteration hit a duplicate-UID error
DuplicateHit(uid) == AuditedSince(audit, audit', "repair_stage_duplicate_uid", uid)

RunGoesOn == pc' = "mirror" /\ runs' = runs /\ mirrored' = mirrored + 1

RunEndsInError == pc' = "done" /\ runs' # runs /\ runs'[Len(runs')].status = "error"

\* after the step the stage holds a twin of the event
TwinWritten(event) ==
    \E r \in cal'[STAGE] :
        /\ r.uid = event.uid
        /\ event_fingerprint(parse_resource(STAGE, r)) = event_fingerprint(event)

\* after the step the stage holds no event with the UID
StageCleared(uid) == \A r \in cal'[STAGE] : r.uid # uid

MaxContent == 4

LBrace == "{"
RBrace == "}"
Fence == "fence"
Members == {"changes_list", "changes_scalar", "member"}
Pieces == {LBrace, RBrace, Fence, "text"} \cup Members
Contents == UNION {[1..n -> Pieces] : n \in 0..MaxContent}

NoJson == <<"ValueError">>

\* the array the "changes_list" member carries
ListedChanges == <<Change(USER, MainUid, Missing, Val("B"), Missing)>>

\* ai_client.py:12, the first match of JSON_BLOCK_PATTERN: the leftmost fence
\* followed by a brace, up to the last brace followed by a fence
json_block(text) ==
    LET opens == {i \in 2..Len(text) :
                     /\ text[i] = LBrace /\ text[i - 1] = Fence
                     /\ \E j \in (i + 1)..(Len(text) - 1) :
                           text[j] = RBrace /\ text[j + 1] = Fence}
    IN  IF opens = {} THEN NoJson
        ELSE LET start == CHOOSE i \in opens : \A k \in opens : i <= k
                 end == CHOOSE j \in (start + 1)..(Len(text) - 1) :
                           /\ text[j] = RBrace /\ text[j + 1] = Fence
                           /\ \A k \in (j + 1)..(Len(text) - 1) :
                                 ~(text[k] = RBrace /\ text[k + 1] = Fence)
             IN  SubSeq(text, start, end)

\* ai_client.py:15-26
extract_json_payload(content) ==
    LET opens == {i \in DOMAIN content : content[i] = LBrace}
        closes == {i \in DOMAIN content : content[i] = RBrace}
    IN  IF content # <<>> /\ Head(content) = LBrace /\ content[Len(content)] = RBrace
        THEN content
        ELSE IF json_block(content) # NoJson THEN json_block(content)
        ELSE IF /\ opens # {} /\ closes # {}
                /\ (CHOOSE j \in closes : \A k \in closes : k <= j)
                      > (CHOOSE i \in opens : \A k \in opens : i <= k)
        THEN SubSeq(content, CHOOSE i \in opens : \A k \in opens : i <= k,
                    CHOOSE j \in closes : \A k \in closes : k <= j)
        ELSE NoJson

\* json.loads on a text that starts and ends with a brace: an object of the
\* members between the braces, the last "changes" member winning, or a
\* JSONDecodeError
json_loads(json_text) ==
    LET inner == SubSeq(json_text, 2, Len(json_text) - 1)
        keyed == {i \in DOMAIN inner : inner[i] \in {"changes_list", "changes_scalar"}}
    IN  IF \E i \in DOMAIN inner : inner[i] \notin Members
        THEN [kind |-> "error"]
        ELSE [kind |-> "object",
              changes |-> IF keyed = {} THEN "absent"
                          ELSE inner[CHOOSE i \in keyed : \A k \in keyed : k <= i]]

\* ai_client.py:48-74, the planner being configured and the HTTP exchange
\* having succeeded
generate_changes(content) ==
    IF extract_json_payload(content) = NoJson THEN [raised |-> TRUE, changes |-> <<>>]
    ELSE IF json_loads(extract_json_payload(content)).kind # "object"
    THEN [raised |-> TRUE, changes |-> <<>>]
    ELSE IF json_loads(extract_json_payload(content)).changes # "changes_list"
    THEN [raised |-> FALSE, changes |-> <<>>]
    ELSE [raised |-> FALSE, changes |-> ListedChanges]

\* sync_engine.py:888-901 on the content args.content
PlanContent ==
    /\ pc = "plan"
    /\ IF generate_changes(args.content).raised
       THEN PlanFail
       ELSE Plan(generate_changes(args.content).changes)

\* the user calendar holds an event with an instruction that the stage does
\* not mirror yet
PlannerServers ==
    {s \in Servers :
        /\ \E r \in s[USER] : r.uid = MainUid /\ r.description.block = Wanted
        /\ s[STAGE] = {} /\ s[SOURCE] = {} /\ s[INTAKE] = {}}

InitPlanner ==
    /\ args \in [content : Contents]
    /\ result = NotCalled
    /\ cal \in PlannerServers
    /\ InitStore
    /\ pc = "idle"
    /\ AtRest
    /\ NoRequest

NextPlanner ==
    \/ Start("manual", TRUE)
    \/ Duplicates
    \/ StageHygiene
    \/ UserHygiene("none")
    \/ Intake("none")
    \/ Sources("none")
    \/ UserLayer
    \/ Gate
    \/ PlanContent
    \/ Reconcile
    \/ Mirror("ok")
    \/ Finish

\* one manual run_once without server errors, the planner answering args.content
SpecPlanner == InitPlanner /\ [][NextPlanner]_vars

\* the content is a JSON object, and nothing else, with a "changes" array
Conforms(content) ==
    /\ Len(content) >= 2
    /\ Head(content) = LBrace /\ content[Len(content)] = RBrace
    /\ \A i \in 2..(Len(content) - 1) : content[i] \in Members
    /\ \E i \in 2..(Len(content) - 1) :
          /\ content[i] = "changes_list"
          /\ \A k \in (i + 1)..(Len(content) - 1) : content[k] # "changes_scalar"

\* the run ended in the error handler out of the planner call
PlannerRaised ==
    /\ pc = "done" /\ runs # <<>> /\ runs[Len(runs)].status = "error"
    /\ Len(audit) >= 2
    /\ audit[Len(audit) - 1].action = "ai_request"
    /\ audit[Len(audit)].action = "run_error"

\* C30: a planner response that does not conform to the contract (no JSON
\* object in the text, root not a mapping, no "changes" key, "changes" not an
\* array) gives the run an empty change list: nothing is applied and the
\* response does not make the run fail
C30_MalformedResponseYieldsNoChange ==
    ~Conforms(args.content) =>
        /\ normalized_changes = <<>>
        /\ changes_applied = 0
        /\ ~PlannerRaised

(***************************************************************************)
(* SyncScheduler step by step.  loop is the position of the loop thread:   *)
(* "none" before the first start(), "startup" and "run" before a call of    *)
(* run_once, "in_run" inside it, "test" at the while condition (line 38),   *)
(* "wait" in wait() (line 41), "clear" before line 42, "check" at line 43,  *)
(* "dead" after _loop returned.  join() in stop() only delays the caller    *)
(* and is left out.                                                         *)
(***************************************************************************)
LoopAlive == loop \notin {"none", "dead"}

LoopFrame == UNCHANGED <<fnVars, configVars, cal, meta, audit, pc, localVars, histVars, response>>

\* scheduler.py:18-23
SchedulerStart ==
    /\ ~LoopAlive
    /\ stop_event' = FALSE
    /\ loop' = "startup"
    /\ LoopFrame
    /\ UNCHANGED <<runs, running, manual_trigger_event, manual, stopping, requested>>

\* scheduler.py:26
SchedulerStop ==
    /\ ~stopping
    /\ stop_event' = TRUE
    /\ stopping' = TRUE
    /\ LoopFrame
    /\ UNCHANGED <<runs, running, manual_trigger_event, loop, manual, requested>>

\* scheduler.py:27
StopSignal ==
    /\ stopping
    /\ manual_trigger_event' = TRUE
    /\ stopping' = FALSE
    /\ LoopFrame
    /\ UNCHANGED <<runs, running, stop_event, loop, manual, requested>>

\* scheduler.py:31-32
TriggerManual ==
    /\ manual_trigger_event' = TRUE
    /\ requested' = TRUE
    /\ LoopFrame
    /\ UNCHANGED <<runs, running, stop_event, loop, manual, stopping>>

\* scheduler.py:36, 46 and 48: the loop thread calls run_once
LoopEnter ==
    /\ loop \in {"startup", "run"}
    /\ Enter("scheduler", IF loop = "startup" THEN "startup"
                          ELSE IF manual THEN "manual" ELSE "scheduled")
    /\ requested' = IF loop = "run" /\ manual THEN FALSE ELSE requested
    /\ loop' = "in_run"
    /\ LoopFrame
    /\ UNCHANGED <<runs, manual_trigger_event, stop_event, manual, stopping>>

\* run_once returns to the loop thread
LoopLeave ==
    /\ loop = "in_run"
    /\ Leave("scheduler")
    /\ loop' = "test"
    /\ LoopFrame
    /\ UNCHANGED <<manual_trigger_event, stop_event, manual, stopping, requested>>

\* scheduler.py:38
LoopTest ==
    /\ loop = "test"
    /\ loop' = IF stop_event THEN "dead" ELSE "wait"
    /\ LoopFrame
    /\ UNCHANGED <<runs, running, manual_trigger_event, stop_event, manual, stopping,
                   requested>>

\* scheduler.py:39-41: wait() returns True when the event is set, False when
\* the interval has passed with the event clear
LoopWait ==
    /\ loop = "wait"
    /\ manual' = manual_trigger_event
    /\ loop' = "clear"
    /\ LoopFrame
    /\ UNCHANGED <<runs, running, manual_trigger_event, stop_event, stopping, requested>>

\* scheduler.py:42
LoopClear ==
    /\ loop = "clear"
    /\ manual_trigger_event' = FALSE
    /\ loop' = "check"
    /\ LoopFrame
    /\ UNCHANGED <<runs, running, stop_event, manual, stopping, requested>>

\* scheduler.py:43-45
LoopCheck ==
    /\ loop = "check"
    /\ loop' = IF stop_event THEN "dead" ELSE "run"
    /\ LoopFrame
    /\ UNCHANGED <<runs, running, manual_trigger_event, stop_event, manual, stopping,
                   requested>>

InitLoop ==
    /\ args = NotCalled
    /\ result = NotCalled
    /\ cal = [c \in CalendarIds |-> {}]
    /\ meta = NoMeta /\ audit = <<>> /\ runs = <<>> /\ planner_calls = <<>>
    /\ pc = "idle"
    /\ AtRest
    /\ NoRequest

NextLoop ==
    \/ SchedulerStart
    \/ SchedulerStop
    \/ StopSignal
    \/ TriggerManual
    \/ LoopEnter
    \/ LoopLeave
    \/ LoopTest
    \/ LoopWait
    \/ LoopClear
    \/ LoopCheck

\* the scheduler under any sequence of start, stop and trigger_manual calls
SpecLoop == InitLoop /\ [][NextLoop]_vars

\* the loop thread enters run_once in this step
RunStarts == running["scheduler"] = "no" /\ running'["scheduler"] # "no"

\* C31: once stop() has been called (and until a later start() takes effect)
\* the loop thread starts no run_once, the startup run included, and it ends
\* when the run in progress, if any, has returned
C31_NoRunStartsAfterStop ==
    [][stop_event =>
          /\ ~RunStarts
          /\ (loop = "test" /\ loop' # loop) => loop' = "dead"]_vars

\* the signal of a trigger_manual() call is still on its way to a manual run:
\* the event is set, or wait() has returned True and the run has not started
SignalPending ==
    \/ manual_trigger_event
    \/ loop \in {"clear", "check", "run"} /\ manual

\* C39: no manual trigger is lost: while the loop is running and has not been
\* stopped, a trigger_manual() call that no manual run has started after is
\* still on its way to one (triggers may be coalesced into one run)
C39_NoManualTriggerIsLost ==
    (requested /\ LoopAlive /\ ~stop_event) => SignalPending

\* C40: the loop thread starts a run tagged manual only when trigger_manual()
\* has been called and no manual run has started since, whatever start and
\* stop calls came before
C40_ManualRunOnlyWhenRequested ==
    [][(RunStarts /\ running'["scheduler"] = "manual") => requested]_vars

(***************************************************************************)
(* ConfigManager.update called by the web server's worker threads on one   *)
(* ConfigManager.  "at" is the thread's position: "out", "locked" (line     *)
(* 74 passed), "loaded" (line 75 passed), "saved" (line 78 passed).         *)
(***************************************************************************)
ValuesOf(key) == IF key = "window_days" THEN {0, 3}
                 ELSE IF key = "interval_seconds" THEN {10, 60}
                 ELSE {45}

\* the mappings over some of the keys in keys
PartialMappings(keys, Values(_)) ==
    UNION {{f \in [named -> UNION {Values(k) : k \in named}] :
               \A k \in named : f[k] \in Values(k)} : named \in SUBSET keys}

SectionPayloads(section) == PartialMappings(KeysOf(section), ValuesOf) \cup {Null}

Payloads ==
    UNION {{p \in [named -> UNION {SectionPayloads(s) : s \in named}] :
               \A s \in named : p[s] \in SectionPayloads(s)} : named \in SUBSET Sections}

\* what the file may hold before the first update: the defaults, nothing, or
\* values written by hand
ConfigFiles ==
    {from_dict(<<>>), <<>>, [sync |-> [window_days |-> 0, interval_seconds |-> 10]]}

\* config_manager.py:74, `with self._lock`: the lock is free (the re-entrant
\* acquisitions of load and save by the holder do not block)
acquirable_always(holder, thread) == TRUE

acquirable(holder, thread) == holder = "free"

\* config_manager.py:73-74
UpdateEnter(thread, payload) ==
    /\ updating[thread].at = "out"
    /\ updating[thread].payload = NoPayload
    /\ acquirable(lock, thread)
    /\ lock' = thread
    /\ updating' = [updating EXCEPT ![thread] = [at |-> "locked", payload |-> payload,
                                                 current |-> NoCurrent]]
    /\ UNCHANGED <<fnVars, loopVars, webVars, cal, storeVars, pc, localVars, histVars,
                   config_file>>

\* config_manager.py:75 (load, lines 37-41)
UpdateLoad(thread) ==
    /\ updating[thread].at = "locked"
    /\ updating' = [updating EXCEPT ![thread].at = "loaded",
                                    ![thread].current = from_dict(config_file)]
    /\ UNCHANGED <<fnVars, loopVars, webVars, cal, storeVars, pc, localVars, histVars,
                   config_file, lock>>

\* config_manager.py:76-78 (save, lines 43-71)
UpdateSave(thread) ==
    /\ updating[thread].at = "loaded"
    /\ config_file' = from_dict(deep_merge(updating[thread].current,
                                           updating[thread].payload))
    /\ updating' = [updating EXCEPT ![thread].at = "saved"]
    /\ UNCHANGED <<fnVars, loopVars, webVars, cal, storeVars, pc, localVars, histVars, lock>>

\* config_manager.py:79: the lock is released and update returns
UpdateReturn(thread) ==
    /\ updating[thread].at = "saved"
    /\ lock' = "free"
    /\ updating' = [updating EXCEPT ![thread].at = "out"]
    /\ UNCHANGED <<fnVars, loopVars, webVars, cal, storeVars, pc, localVars, histVars,
                   config_file>>

InitConfig ==
    /\ args \in [file : ConfigFiles]
    /\ result = NotCalled
    /\ cal = [c \in CalendarIds |-> {}]
    /\ meta = NoMeta /\ audit = <<>> /\ runs = <<>> /\ planner_calls = <<>>
    /\ pc = "idle"
    /\ AtRest
    /\ response = NoResponse
    /\ running = [t \in Threads |-> "no"]
    /\ manual_trigger_event = FALSE
    /\ NoLoop
    /\ config_file = args.file
    /\ lock = "free"
    /\ updating = [t \in Threads |-> [at |-> "out", payload |-> NoPayload,
                                      current |-> NoCurrent]]

NextConfig ==
    \/ \E worker \in Workers, payload \in Payloads \ {NoPayload} : UpdateEnter(worker, payload)
    \/ \E worker \in Workers : UpdateLoad(worker)
    \/ \E worker \in Workers : UpdateSave(worker)
    \/ \E worker \in Workers : UpdateReturn(worker)

\* each worker thread calls update once, with any payload, at any time
SpecConfig == InitConfig /\ [][NextConfig]_vars

\* the keys a payload names; a null section names every key of the section
NamedKeys(payload) ==
    {sk \in UNION {{<<s, k>> : k \in KeysOf(s)} : s \in DOMAIN payload} :
        payload[sk[1]] = Null \/ sk[2] \in DOMAIN payload[sk[1]]}

\* the value the configuration holds for a key the payload names
Asked(payload, section, key) ==
    IF payload[section] = Null THEN DefaultOf(key)
    ELSE IF section = "sync" THEN Max(FloorOf(key), payload[section][key])
    ELSE payload[section][key]

BothReturned == \A w \in Workers : updating[w].at = "out" /\ updating[w].payload # NoPayload

\* C32: update calls on one ConfigManager do not interleave: when two
\* concurrent updates naming disjoint keys have returned, the configuration
\* holds the value either payload gave to each key it names (as from_dict
\* stores it), and every other key has the value load() returned before
C32_ConcurrentUpdatesBothLand ==
    (/\ BothReturned
     /\ NamedKeys(updating["worker1"].payload) \cap NamedKeys(updating["worker2"].payload) = {})
    => \A s \in Sections : \A k \in KeysOf(s) :
          config_file[s][k] =
              IF <<s, k>> \in NamedKeys(updating["worker1"].payload)
              THEN Asked(updating["worker1"].payload, s, k)
              ELSE IF <<s, k>> \in NamedKeys(updating["worker2"].payload)
              THEN Asked(updating["worker2"].payload, s, k)
              ELSE from_dict(args.file)[s][k]

\* two updates of different keys of the same section have returned and both
\* values are in the file
C32_Witness ==
    /\ BothReturned
    /\ updating["worker1"].payload = [sync |-> [window_days |-> 3]]
    /\ updating["worker2"].payload = [sync |-> [interval_seconds |-> 60]]
    /\ config_file["sync"] = [window_days |-> 3, interval_seconds |-> 60]

(***************************************************************************)
(* The UID helpers as functions.  A UID is the sequence of the segments    *)
(* that split(":") gives, so every string is a non-empty sequence; the     *)
(* segments tried are the empty one, one that is no prefix, two of ten hex  *)
(* digits and one of ten characters that are not all lower-case hex.        *)
(***************************************************************************)
MaxSegments == 3

Segments == {"", "abc", "76044593b8", "aaaaaaaaaa", "ABCDEF0123"}
Uids == UNION {[1..n -> Segments] : n \in 1..MaxSegments}

InitUid ==
    /\ args \in [calendar_id : CalendarIds, uid : Uids]
    /\ result = NotCalled
    /\ cal = [c \in CalendarIds |-> {}]
    /\ InitStore
    /\ pc = "idle"
    /\ AtRest
    /\ NoRequest

\* sync_engine.py:35-63
CallStagingUid ==
    /\ ~result.called
    /\ result' = Returned([uid |-> staging_uid(args.calendar_id, args.uid),
                           depth |-> managed_uid_prefix_depth(
                                         staging_uid(args.calendar_id, args.uid)),
                           collapsed |-> collapse_nested_managed_uid(
                                             staging_uid(args.calendar_id, args.uid))])
    /\ UNCHANGED <<args, configVars, loopVars, cal, storeVars, pc, localVars, histVars,
                   webVars>>

NextUid == CallStagingUid

SpecUid == InitUid /\ [][NextUid]_vars

\* C33: the prefix depth of staging_uid(c, u) is 1 plus the prefix depth of u,
\* for every calendar id c and every UID u (empty, ten hex digits by itself,
\* already prefixed)
C33_StagingUidAddsOneLevel ==
    result.called => result.value.depth = 1 + managed_uid_prefix_depth(args.uid)

\* the UID is ten hex digits and nothing else, and it has been namespaced
C33_Witness ==
    /\ result.called
    /\ args.uid = <<"76044593b8">>
    /\ result.value.depth = 1

\* C34 (as stated): collapsing staging_uid(c, u) returns it unchanged, for
\* every calendar id c and every UID u
C34_CollapseKeepsStagingUid ==
    result.called => result.value.collapsed = result.value.uid

\* C34 (amended): collapsing staging_uid(c, u) returns it unchanged when u
\* carries no managed prefix; when u carries one or more, the collapse drops
\* the prefix of c with all but the last prefix of u, which is the collapse of u
C34_CollapseKeepsFreshStagingUid ==
    result.called =>
        IF managed_uid_prefix_depth(args.uid) = 0
        THEN result.value.collapsed = result.value.uid
        ELSE /\ result.value.collapsed = collapse_nested_managed_uid(args.uid)
             /\ managed_uid_prefix_depth(result.value.collapsed) = 1

\* a UID without a managed prefix was namespaced and collapsed
C34_Witness ==
    /\ result.called
    /\ args.uid = <<"abc">>
    /\ args.calendar_id = INTAKE
    /\ result.value.collapsed = <<"76044593b8", "abc">>

\* apply_change called again on the event the first call returned, with the
\* same change, baseline etag and editable fields
Reapplied ==
    apply_change(Outcome.event, args.change, args.baseline_etag, args.editable_fields)

\* C35: re-applying a change is idempotent: when apply_change(e, c) is not a
\* conflict, applying c to the event it returned (same baseline etag, same
\* editable fields) returns an equal event and reports applied = false
C35_ReapplyIsIdempotent ==
    (result.called /\ ~Outcome.conflicted) =>
        /\ Reapplied.event = Outcome.event
        /\ ~Reapplied.applied
        /\ ~Reapplied.conflicted

\* the first call changed the start, the summary and the location
C35_Witness ==
    /\ result.called /\ Outcome.applied
    /\ args.change.start = Val("T3") /\ args.change.summary = Val("B")
    /\ args.change.location = Val("M")
    /\ Outcome.event.start = 3 /\ Outcome.event.summary = "B" /\ Outcome.event.location = "M"
    /\ Reapplied.reason = "no_changes"

\* the events with the UID in the user calendar after the step
UserCopiesAfter(uid) == {r \in cal'[USER] : r.uid = uid}

\* C36: user-layer hygiene never deletes the last copy of an event: after the
\* hygiene phase every UID kept in the user-layer map has exactly one event in
\* the user calendar, also when a nested UID sorts before its collapsed twin
C36_HygieneKeepsOneCopy ==
    [][(pc = "user" /\ pc' = "intake" /\ faults' = faults) =>
          \A i \in DOMAIN user_map' :
              Cardinality(UserCopiesAfter(user_map'[i].uid)) = 1]_vars

\* the intake events without a managed prefix that the step deletes
IntakeDeleted ==
    {r \in cal[INTAKE] : /\ managed_uid_prefix_depth(r.uid) = 0
                         /\ \A t \in cal'[INTAKE] : t.uid # r.uid}

\* C37: intake import never loses an event: when an intake event without a
\* managed prefix is deleted, the user calendar holds an event with the UID
\* staging_uid(intake calendar, uid), also when the user-layer write failed
\* with a duplicate-UID error
C37_IntakeDeleteLeavesUserCopy ==
    [][pc = "intake" =>
          \A r \in IntakeDeleted : UserCopiesAfter(staging_uid(INTAKE, r.uid)) # {}]_vars

\* C38: an intent is consumed at most once: once a planner change has been
\* applied to an event and its user_intent cleared, no later step restores
\* the intent from the unchanged source event and no change is applied to
\* the event again (no user writes a new intent in these runs)
C38_IntentConsumedOnce ==
    \A i \in DOMAIN audit : \A j \in DOMAIN audit :
        (i < j /\ audit[i].action = "apply_ai_change" /\ audit[j].uid = audit[i].uid)
        => audit[j].action \notin {"apply_ai_change", "propagate_user_intent_from_source"}

(***************************************************************************)
(* Two runs in a row on an editable source calendar whose event may carry   *)
(* an instruction; nobody touches the calendars between or during the runs. *)
(***************************************************************************)
SourceChanges ==
    {Change(SOURCE, RawUid, Missing, Val("B"), Missing),
     Change(SOURCE, RawUid, Val("T3"), Missing, Missing)}

SourceResponses == {<<>>} \cup {<<c>> : c \in SourceChanges}

InitIntent ==
    /\ args = NotCalled
    /\ result = NotCalled
    /\ cal \in {Server({}, user, {}, <<{}, {Stored(RawUid, href_of(RawUid), "A", b)}>>) :
                   user \in {{}, {Stored(MainUid, href_of(MainUid), "A", Settled)}},
                   b \in {Wanted, NoBlock, Settled}}
    /\ InitStore
    /\ pc = "idle"
    /\ AtRest
    /\ NoRequest

NextIntent ==
    \/ \E t \in {"manual", "scheduled"} : Start(t, TRUE)
    \/ Duplicates
    \/ StageHygiene
    \/ UserHygiene("none")
    \/ Intake("none")
    \/ Sources("none")
    \/ UserLayer
    \/ Gate
    \/ \E raw_changes \in SourceResponses : Plan(raw_changes)
    \/ Reconcile
    \/ Mirror("ok")
    \/ Finish
    \/ Tick

SpecIntent == InitIntent /\ [][NextIntent]_vars

====
